---- MODULE Spec2Model ----
(***************************************************************************)
(* A model of the crawl engine of github-crawler: the Request order        *)
(* (model/request.rs), the shared CrawlerState (model/entities.rs), the    *)
(* WorkerCrawler loop (infrastructure/crawler_worker.rs), the two retriers *)
(* (fetcher_retrier.rs, persister_retrier.rs), the PostgreSQL persister    *)
(* (persister_postgresql.rs) and the ParallelCrawler supervisor            *)
(* (crawler_parallel.rs).                                                  *)
(*                                                                         *)
(* The two main specifications:                                            *)
(*   Spec       the concurrent crawl: a ParallelCrawler over its child     *)
(*              WorkerCrawlers, all on one CrawlerState and one store.     *)
(*              Every acquisition of a CrawlerState lock, every store      *)
(*              round-trip and every fetch is one step of one worker.      *)
(*   StateSpec  one client calling the CrawlerState operations one after   *)
(*              the other (the shape of the unit tests of entities.rs).    *)
(* FairSpec is Spec with the fairness of the tokio scheduler; LateSpec is  *)
(* Spec with a history that also counts the pops made after the target    *)
(* was reached.                                                            *)
(* Each of the other specifications follows one call closely:             *)
(*   RetrierSpec   FetcherRetrier::fetch or PersisterRetrier::persist.     *)
(*   EnforcerSpec  FetcherRateLimitEnforcer::fetch, with a clock.          *)
(*   ParallelSpec  ParallelCrawler::crawl over mock children, with a clock.*)
(*   GraphQlSpec   GraphQlFetcher::fetch, from the request to the result.  *)
(*   ProcessSpec   process_response called twice with the same batch.      *)
(*   PushSpec      StateSpec's client calling push_requests.               *)
(*   LockSpec      the RwLocks of CrawlerState, operation by operation;    *)
(*                 LockFairSpec adds the scheduler's fairness.             *)
(*   SequentialSpec  SequentialCrawler::crawl, then WorkerCrawler::crawl   *)
(*                 on the same stubs.                                      *)
(***************************************************************************)
EXTENDS Integers, Sequences, FiniteSets, TLC

VARIABLES
    requests_priority_queue,        \* CrawlerState: the BinaryHeap's array
    requests_pushed,                \* CrawlerState: the HashSet of pushed requests
    total_repositories_target,      \* CrawlerState counters
    total_fetcher_calls,
    total_persisted_repositories,
    total_collisions_repositories,
    rows,                           \* github.repository: the keys stored
    config,                         \* what main built: children, seeds, target, fetcher
    supervisor,                     \* ParallelCrawler::crawl's position
    worker,                         \* each WorkerCrawler::crawl's position and locals
    ghost,                          \* history: pops, fetch calls, batches handed over,  
                                    \* what each worker's current iteration has added
    client                          \* StateSpec: the last CrawlerState call and its result

vars == << requests_priority_queue, requests_pushed, total_repositories_target,
           total_fetcher_calls, total_persisted_repositories,
           total_collisions_repositories, rows, config, supervisor, worker,
           ghost, client >>

stateVars == << requests_priority_queue, requests_pushed, total_repositories_target,
                total_fetcher_calls, total_persisted_repositories,
                total_collisions_repositories >>

(***************************************************************************)
(* Bounds of the model.                                                    *)
(***************************************************************************)
\* the largest target a crawl is given
MaxTarget == 2
\* max_retries of both retriers (a constructor argument)
MaxRetries == 2
\* StateSpec: the most requests its client pushes
MaxPushed == 3

(***************************************************************************)
(* Strings are sequences of character codes, compared as Rust compares     *)
(* str: lexicographically, a proper prefix first.                          *)
(***************************************************************************)
Empty == << >>
StrB == << 98 >>
StrC == << 99 >>
StrO == << 111 >>
StrQ == << 113 >>

RECURSIVE StrCmp(_, _)
StrCmp(s, t) ==
    IF s = << >> /\ t = << >> THEN "Equal"
    ELSE IF s = << >> THEN "Less"
    ELSE IF t = << >> THEN "Greater"
    ELSE IF Head(s) < Head(t) THEN "Less"
    ELSE IF Head(s) > Head(t) THEN "Greater"
    ELSE StrCmp(Tail(s), Tail(t))

IntCmp(x, y) == IF x < y THEN "Less" ELSE IF x > y THEN "Greater" ELSE "Equal"

\* Option<String>: None is [some |-> FALSE, val |-> ""].
None == [some |-> FALSE, val |-> Empty]
Some(s) == [some |-> TRUE, val |-> s]

\* Option's derived Ord: None < Some(_), Some(x) against Some(y) as x against y.
OptCmp(x, y) ==
    IF ~x.some /\ ~y.some THEN "Equal"
    ELSE IF ~x.some THEN "Less"
    ELSE IF ~y.some THEN "Greater"
    ELSE StrCmp(x.val, y.val)

\* Option::unwrap_or_default
unwrap_or_default(x) == IF x.some THEN x.val ELSE Empty

\* Ordering::then_with
then_with(o, next) == IF o = "Equal" THEN next ELSE o

(***************************************************************************)
(* Request: the two variants, each with its name (query or                 *)
(* organization_name), first and after.                                    *)
(***************************************************************************)
SearchOrganization(query, first, after) ==
    [variant |-> "SearchOrganization", name |-> query, first |-> first, after |-> after]

RepositoriesFromOrganization(org, first, after) ==
    [variant |-> "RepositoriesFromOrganization", name |-> org, first |-> first,
     after |-> after]

get_first(r) == r.first

get_after(r) == r.after

get_variant_weight(r) == IF r.variant = "SearchOrganization" THEN 0 ELSE 1

\* impl Ord for Request: after, then the variant's weight, then first, then the
\* request's own query / organization_name against the OTHER request's after.
cmp_tail(a, b) == StrCmp(a.name, unwrap_or_default(get_after(b)))

cmp(a, b) ==
    then_with(OptCmp(get_after(a), get_after(b)),
      then_with(IntCmp(get_variant_weight(a), get_variant_weight(b)),
        then_with(IntCmp(get_first(a), get_first(b)),
          cmp_tail(a, b))))

\* PartialOrd::le, which the heap uses: a <= b iff partial_cmp is Less or Equal.
le(a, b) == cmp(a, b) # "Greater"

(***************************************************************************)
(* std::collections::BinaryHeap<Request>, a max-heap in an array (indices  *)
(* from 0, data[i + 1] here).  push appends and sifts up; pop takes the    *)
(* root, moves the last element to the root, sifts it down to the bottom   *)
(* and back up.  Every comparison is PartialOrd::le on Request.            *)
(***************************************************************************)
Swap(data, i, j) == [data EXCEPT ![i + 1] = data[j + 1], ![j + 1] = data[i + 1]]

RECURSIVE sift_up(_, _, _)
sift_up(data, start, pos) ==
    IF pos > start
    THEN LET parent == (pos - 1) \div 2
         IN  IF le(data[pos + 1], data[parent + 1])
             THEN data
             ELSE sift_up(Swap(data, pos, parent), start, parent)
    ELSE data

RECURSIVE sift_down_to_bottom_from(_, _, _)
sift_down_to_bottom_from(data, start, pos) ==
    LET end == Len(data)
        child == 2 * pos + 1
    IN  IF end >= 2 /\ child <= end - 2
        THEN LET c == IF le(data[child + 1], data[child + 2]) THEN child + 1 ELSE child
             IN  sift_down_to_bottom_from(Swap(data, pos, c), start, c)
        ELSE IF child = end - 1
             THEN sift_up(Swap(data, pos, child), start, child)
             ELSE sift_up(data, start, pos)

sift_down_to_bottom(data, pos) == sift_down_to_bottom_from(data, pos, pos)

\* BinaryHeap::push
heap_push(data, item) == sift_up(Append(data, item), 0, Len(data))

\* BinaryHeap::pop on a non-empty heap: the element returned ...
heap_pop_item(data) == data[1]

\* ... and the array left.
heap_pop_rest(data) ==
    IF Len(data) = 1 THEN << >>
    ELSE sift_down_to_bottom([SubSeq(data, 1, Len(data) - 1) EXCEPT ![1] = data[Len(data)]], 0)

Elements(data) == {data[i] : i \in 1 .. Len(data)}

(***************************************************************************)
(* CrawlerState (model/entities.rs).                                       *)
(***************************************************************************)
\* The target taken as reached only once it is exceeded.
has_persisted_more_than_target(target, persisted) == persisted > target

\* has_completed, from the four values it reads: Ok(true) is "done",
\* Ok(false) "notDone", Err(Not enough repositories persisted) "failed".
has_persisted_enough_repositories(target, persisted) == persisted >= target

\* has_completed never answering Err.
has_failed_never(has_empty_priority_queue, has_pushed_requests, has_persisted_enough) ==
    FALSE

\* has_failed without its has_pushed_requests conjunct.
has_failed_ignoring_pushed(has_empty_priority_queue, has_pushed_requests, has_persisted_enough) ==
    has_empty_priority_queue /\ ~has_persisted_enough

has_failed(has_empty_priority_queue, has_pushed_requests, has_persisted_enough) ==
    has_empty_priority_queue /\ has_pushed_requests /\ ~has_persisted_enough

has_completed(target, persisted, has_empty_priority_queue, has_pushed_requests) ==
    IF has_persisted_enough_repositories(target, persisted) THEN "done"
    ELSE IF has_failed(has_empty_priority_queue, has_pushed_requests,
                       has_persisted_enough_repositories(target, persisted))
         THEN "failed"
         ELSE "notDone"

\* push_request without its insert into requests_pushed.
pushed_after_forgetting(pushed, request) == pushed

\* push_request without its contains check.
is_new_request_unchecked(pushed, request) == TRUE

\* push_request's first critical section (requests_pushed's write lock):
\* whether the request is new, and the set after it.
is_new_request(pushed, request) == request \notin pushed

pushed_after(pushed, request) == pushed \cup {request}

\* has_completed on the state as it stands (no other task between its reads).
HasCompletedNow ==
    has_completed(total_repositories_target, total_persisted_repositories,
                  requests_priority_queue = << >>, requests_pushed # {})

(***************************************************************************)
(* The requests and repositories of the model.                             *)
(***************************************************************************)
SmallFirst == 10
LargeFirst == 100

\* StateSpec pushes any of these: the four requests of the ordering scenario
\* (query q, organization o, first 100, no cursor or cursor c) and three more
\* that differ from one of them in the query or in first only.
OrderRequests ==
    { SearchOrganization(StrQ, LargeFirst, None),
      SearchOrganization(StrQ, LargeFirst, Some(StrC)),
      RepositoriesFromOrganization(StrO, LargeFirst, None),
      RepositoriesFromOrganization(StrO, LargeFirst, Some(StrC)),
      SearchOrganization(StrB, LargeFirst, None),
      SearchOrganization(StrB, LargeFirst, Some(StrC)),
      SearchOrganization(StrQ, SmallFirst, None) }

\* The value of a worker's request slot when it holds none.
NoRequest == [variant |-> "SearchOrganization", name |-> Empty, first |-> 0, after |-> None]

(***************************************************************************)
(* StateSpec: one client, one CrawlerState, one call at a time.            *)
(***************************************************************************)
NoConfig == [mode |-> "state", crawlers |-> 0, seeds |-> << >>, target |-> 0,
             fetcher |-> "stub"]

IdleSupervisor == [pc |-> "idle", i |-> 0]

NoCall == [op |-> "none", request |-> NoRequest, result |-> "none"]

StateInit ==
    /\ requests_priority_queue = << >>
    /\ requests_pushed = {}
    /\ total_repositories_target = 0
    /\ total_fetcher_calls = 0
    /\ total_persisted_repositories = 0
    /\ total_collisions_repositories = 0
    /\ rows = {}
    /\ config = NoConfig
    /\ supervisor = IdleSupervisor
    /\ worker = << >>
    /\ ghost = << >>
    /\ client = NoCall

\* Whole push_request(request).
CallPushRequest(request) ==
    /\ Cardinality(requests_pushed \cup {request}) <= MaxPushed
    /\ IF is_new_request(requests_pushed, request)
       THEN /\ requests_pushed' = pushed_after(requests_pushed, request)
            /\ requests_priority_queue' = heap_push(requests_priority_queue, request)
            /\ client' = [op |-> "push_request", request |-> request, result |-> "pushed"]
       ELSE /\ UNCHANGED << requests_pushed, requests_priority_queue >>
            /\ client' = [op |-> "push_request", request |-> request, result |-> "duplicate"]
    /\ UNCHANGED << total_repositories_target, total_fetcher_calls,
                    total_persisted_repositories, total_collisions_repositories,
                    rows, config, supervisor, worker, ghost >>

\* The longest list push_requests is called with.
MaxList == 3

\* The requests of those lists: a search, its continuation, an organization.
ListRequests ==
    { SearchOrganization(StrQ, LargeFirst, None),
      SearchOrganization(StrQ, LargeFirst, Some(StrC)),
      RepositoriesFromOrganization(StrO, LargeFirst, None) }

RequestLists == UNION {[1 .. n -> ListRequests] : n \in 0 .. MaxList}

\* for request in requests { push_request(request) }: the set and the heap
\* after the loop.
RECURSIVE push_requests(_, _, _)
push_requests(pushed, queue, requests) ==
    IF requests = << >> THEN [pushed |-> pushed, queue |-> queue]
    ELSE IF is_new_request(pushed, Head(requests))
    THEN push_requests(pushed_after(pushed, Head(requests)),
                       heap_push(queue, Head(requests)), Tail(requests))
    ELSE push_requests(pushed, queue, Tail(requests))

\* Whole push_requests(requests).  The call keeps, with its argument, whether
\* none of the requests had been pushed before it (fresh), whether it changed
\* the set or the heap, and whether it repeats the call before it, that call
\* having been fresh.
CallPushRequests(requests) ==
    /\ Cardinality(requests_pushed \cup Elements(requests)) <= MaxPushed
    /\ LET after == push_requests(requests_pushed, requests_priority_queue, requests)
       IN  /\ requests_pushed' = after.pushed
           /\ requests_priority_queue' = after.queue
           /\ client' =
                 [op |-> "push_requests", request |-> NoRequest,
                  result |-> IF after.pushed = requests_pushed THEN "duplicate" ELSE "pushed",
                  requests |-> requests,
                  fresh |-> Elements(requests) \cap requests_pushed = {},
                  changed |-> after.pushed # requests_pushed
                              \/ after.queue # requests_priority_queue,
                  repeated |-> /\ client.op = "push_requests"
                               /\ client.requests = requests
                               /\ client.fresh]
    /\ UNCHANGED << total_repositories_target, total_fetcher_calls,
                    total_persisted_repositories, total_collisions_repositories,
                    rows, config, supervisor, worker, ghost >>

\* pop_request().
CallPopRequest ==
    /\ IF requests_priority_queue = << >>
       THEN /\ UNCHANGED requests_priority_queue
            /\ client' = [op |-> "pop_request", request |-> NoRequest, result |-> "none"]
       ELSE /\ requests_priority_queue' = heap_pop_rest(requests_priority_queue)
            /\ client' = [op |-> "pop_request",
                          request |-> heap_pop_item(requests_priority_queue),
                          result |-> "some"]
    /\ UNCHANGED << requests_pushed, total_repositories_target, total_fetcher_calls,
                    total_persisted_repositories, total_collisions_repositories,
                    rows, config, supervisor, worker, ghost >>

\* set_total_repositories_target(n).
CallSetTarget(n) ==
    /\ total_repositories_target' = n
    /\ client' = [op |-> "set_target", request |-> NoRequest, result |-> "none"]
    /\ UNCHANGED << requests_priority_queue, requests_pushed, total_fetcher_calls,
                    total_persisted_repositories, total_collisions_repositories,
                    rows, config, supervisor, worker, ghost >>

\* increment_total_persisted_repositories(1), while the counter is within the bound.
CallIncrementPersisted ==
    /\ total_persisted_repositories < MaxTarget
    /\ total_persisted_repositories' = total_persisted_repositories + 1
    /\ client' = [op |-> "increment_persisted", request |-> NoRequest, result |-> "none"]
    /\ UNCHANGED << requests_priority_queue, requests_pushed, total_repositories_target,
                    total_fetcher_calls, total_collisions_repositories,
                    rows, config, supervisor, worker, ghost >>

\* has_completed().
CallHasCompleted ==
    /\ client' = [op |-> "has_completed", request |-> NoRequest,
                  result |-> HasCompletedNow]
    /\ UNCHANGED << stateVars, rows, config, supervisor, worker, ghost >>

StateNext ==
    \/ \E request \in OrderRequests : CallPushRequest(request)
    \/ CallPopRequest
    \/ \E n \in 0 .. MaxTarget : CallSetTarget(n)
    \/ CallIncrementPersisted
    \/ CallHasCompleted

StateSpec == StateInit /\ [][StateNext]_vars

\* PushSpec: the same client calling push_requests, push_request and
\* pop_request only.
PushNext ==
    \/ \E requests \in RequestLists : CallPushRequests(requests)
    \/ \E request \in ListRequests : CallPushRequest(request)
    \/ CallPopRequest

PushSpec == StateInit /\ [][PushNext]_vars

(***************************************************************************)
(* Spec: the crawl.  main builds one CrawlerState and hands it to every    *)
(* WorkerCrawler; config.mode "parallel" runs them under ParallelCrawler,  *)
(* "worker" calls one WorkerCrawler::crawl directly (as its tests do).     *)
(* config.fetcher says what the worker's fetcher is: "retrier", a          *)
(* FetcherRetrier on the same CrawlerState around the inner fetcher, or    *)
(* "stub", the inner fetcher alone.  The persister is a PersisterRetrier   *)
(* around PostgresSqlPersister.                                            *)
(***************************************************************************)
\* The WorkerCrawlers main can build; ParallelCrawler runs the first
\* config.crawlers of them.
Workers == {1, 2}

Seed == SearchOrganization(StrQ, LargeFirst, None)
Detail == RepositoriesFromOrganization(StrO, LargeFirst, None)
Continuation == SearchOrganization(StrQ, LargeFirst, Some(StrC))

CrawlRequests == {Seed, Detail, Continuation}

\* The seed lists a crawl is called with.
SeedLists == {<< >>, << Seed >>}

\* What the inner fetcher answers with: Err, Ok(None), or Ok(Some((response,
\* next_requests))) with one of these batches and one of these request lists.
Repository(repository_name, organization_name, total_stars) ==
    [repository_name |-> repository_name, organization_name |-> organization_name,
     total_stars |-> total_stars]

Repository1 == Repository("repository-1", "org-1", 10)
Repository2 == Repository("repository-2", "org-2", 20)

Batches == {<< >>, << Repository1 >>, << Repository1, Repository2 >>}

NextLists == {<< >>, << Detail >>, << Detail, Continuation >>}

FetchOutcomes ==
    {[kind |-> "err", batch |-> << >>, next |-> << >>],
     [kind |-> "none", batch |-> << >>, next |-> << >>]}
    \cup {[kind |-> "some", batch |-> b, next |-> n] : b \in Batches, n \in NextLists}

\* The table's primary key.
Key(repository) == << repository.repository_name, repository.organization_name >>

\* The table before the crawl: empty, or holding repository-1 with fewer stars.
InitialRows == {{}, {Repository("repository-1", "org-1", 5)}}

IdleWorker ==
    [pc |-> "idle", request |-> NoRequest, phase |-> "none", todo |-> << >>,
     attempts |-> 0, batch |-> << >>, next |-> << >>, row |-> 0, inserted |-> 0,
     tries |-> 0, cause |-> "none", expected |-> 0, persisted |-> 0]

NoHistory ==
    [pops |-> [r \in CrawlRequests |-> 0], fetches |-> [r \in CrawlRequests |-> 0],
     handed |-> 0, settled |-> 0, initial |-> {}, effects |-> [i \in Workers |-> 0]]

\* The history of LateSpec: late_pops counts, for each worker, its successful
\* pops since total_persisted reached the target.
LateHistory ==
    [pops |-> [r \in CrawlRequests |-> 0], fetches |-> [r \in CrawlRequests |-> 0],
     handed |-> 0, settled |-> 0, initial |-> {}, effects |-> [i \in Workers |-> 0],
     late_pops |-> [i \in Workers |-> 0]]

Configs ==
    { c \in [mode : {"worker", "parallel"}, crawlers : 0 .. Cardinality(Workers),
             seeds : SeedLists, target : 0 .. MaxTarget,
             fetcher : {"stub", "retrier"}] :
        c.mode = "worker" => c.crawlers = 1 }

Init ==
    /\ requests_priority_queue = << >>
    /\ requests_pushed = {}
    /\ total_repositories_target = 0
    /\ total_fetcher_calls = 0
    /\ total_persisted_repositories = 0
    /\ total_collisions_repositories = 0
    /\ rows \in InitialRows
    /\ config \in Configs
    /\ supervisor = IF config.mode = "parallel" THEN [pc |-> "start", i |-> 0]
                    ELSE IdleSupervisor
    /\ worker = [i \in Workers |->
                    IF config.mode = "worker" /\ i = 1
                    THEN [IdleWorker EXCEPT !.pc = "start"] ELSE IdleWorker]
    /\ ghost = [NoHistory EXCEPT !.initial = rows]
    /\ client = NoCall

\* A worker's crawl returns: its locals are dropped.
Returned(cause) == [IdleWorker EXCEPT !.pc = "returned", !.cause = cause]

\* The top of crawl's while loop: the next has_completed call.
LoopTop == [IdleWorker EXCEPT !.pc = "has_completed"]

\* Where a worker is once its push_requests loop has nothing left to push:
\* after the seeds the loop top; after next_requests push_request(request), the
\* requeue; after the requeue (and state_summary, which only reads) the loop top.
AfterPush(w) ==
    IF w.todo # << >> THEN [w EXCEPT !.pc = "push"]
    ELSE IF w.phase = "next"
         THEN [w EXCEPT !.pc = "push", !.phase = "requeue", !.todo = << w.request >>]
         ELSE LoopTop

\* fetch returned Ok(None): nothing to process, on to the requeue.
AfterEmptyFetch(w) ==
    AfterPush([w EXCEPT !.phase = "next", !.todo = << >>, !.attempts = 0])

(***************************************************************************)
(* What the two retriers share (fetcher_retrier.rs, persister_retrier.rs). *)
(***************************************************************************)
\* The exponent's cap in calculate_exponential_backoff_delay.
BackoffCap == 31

\* The retriers giving up one failure later than max_retries.
retries_exhausted_late(attempts, max_retries) == attempts > max_retries

\* if attempts >= self.max_retries { return Err(..) }
retries_exhausted(attempts, max_retries) == attempts >= max_retries

\* The backoff without its attempt.min(31).
backoff_uncapped(base_delay, attempt) == [base |-> base_delay, shift |-> attempt]

\* The backoff with the exponent counted from zero.
backoff_from_zero(base_delay, attempt) ==
    [base |-> base_delay, shift |-> IF attempt - 1 < BackoffCap THEN attempt - 1 ELSE BackoffCap]

\* calculate_exponential_backoff_delay: the Duration base_delay * 2^shift with
\* shift = attempt.min(31), kept as the pair (2^31 is beyond TLC's integers).
calculate_exponential_backoff_delay(base_delay, attempt) ==
    [base |-> base_delay, shift |-> IF attempt < BackoffCap THEN attempt ELSE BackoffCap]

(***************************************************************************)
(* WorkerCrawler::crawl, step by step.                                     *)
(***************************************************************************)
\* The target set before the empty-seeds check.
target_set_before_check(target, total_repositories) == total_repositories

\* total_repositories_target after a crawl that was refused for its empty
\* seeds: the return comes before set_total_repositories_target.
target_of_refused_crawl(target, total_repositories) == target

\* crawl's entry: the empty-seeds check, then set_total_repositories_target.
CrawlBegin(i) ==
    /\ worker[i].pc = "start"
    /\ IF config.seeds = << >>
       THEN /\ worker' = [worker EXCEPT ![i] = Returned("no_requests")]
            /\ total_repositories_target' =
                  target_of_refused_crawl(total_repositories_target, config.target)
       ELSE /\ total_repositories_target' = config.target
            /\ worker' = [worker EXCEPT ![i] =
                  [@ EXCEPT !.pc = "push", !.phase = "seeds", !.todo = config.seeds]]
    /\ UNCHANGED << requests_priority_queue, requests_pushed, total_fetcher_calls,
                    total_persisted_repositories, total_collisions_repositories,
                    rows, config, supervisor, ghost, client >>

\* push_request, first critical section: the dedup check and insert.
PushRequestDedup(i) ==
    /\ worker[i].pc = "push"
    /\ LET w == worker[i]
           request == Head(w.todo)
       IN  IF is_new_request(requests_pushed, request)
           THEN /\ requests_pushed' = pushed_after(requests_pushed, request)
                /\ worker' = [worker EXCEPT ![i] = [w EXCEPT !.pc = "push_queue"]]
                /\ ghost' = [ghost EXCEPT !.effects[i] =
                      IF w.phase = "next" THEN @ + 1 ELSE @]
           ELSE /\ UNCHANGED requests_pushed
                /\ worker' = [worker EXCEPT ![i] =
                      AfterPush([w EXCEPT !.todo = Tail(w.todo)])]
                /\ ghost' = [ghost EXCEPT !.effects[i] =
                      IF AfterPush([w EXCEPT !.todo = Tail(w.todo)]) = LoopTop THEN 0
                      ELSE IF w.phase = "next" THEN @ + 1 ELSE @]
    /\ UNCHANGED << requests_priority_queue, total_repositories_target,
                    total_fetcher_calls, total_persisted_repositories,
                    total_collisions_repositories, rows, config, supervisor, client >>

\* push_request, second critical section: the push onto the heap.
PushRequestQueue(i) ==
    /\ worker[i].pc = "push_queue"
    /\ LET w == worker[i]
       IN  /\ requests_priority_queue' = heap_push(requests_priority_queue, Head(w.todo))
           /\ worker' = [worker EXCEPT ![i] = AfterPush([w EXCEPT !.todo = Tail(w.todo)])]
           /\ ghost' = [ghost EXCEPT !.effects[i] =
                 IF AfterPush([w EXCEPT !.todo = Tail(w.todo)]) = LoopTop THEN 0 ELSE @]
    /\ UNCHANGED << requests_pushed, total_repositories_target, total_fetcher_calls,
                    total_persisted_repositories, total_collisions_repositories,
                    rows, config, supervisor, client >>

\* has_completed, its reads of the target and of total_persisted: at the loop
\* top of crawl (pc "has_completed") or of FetcherRetrier::fetch (pc "gate").
\* The target is read with total_persisted: the caller has set it, and every
\* other write of it writes the same value.
HasCompletedCounters(i) ==
    /\ worker[i].pc \in {"has_completed", "gate"}
    /\ LET w == worker[i]
           enough == has_persisted_enough_repositories(total_repositories_target,
                                                       total_persisted_repositories)
       IN  worker' = [worker EXCEPT ![i] =
              IF enough
              THEN IF w.pc = "has_completed" THEN Returned("done")
                   ELSE AfterEmptyFetch(w)
              ELSE [w EXCEPT !.pc = IF w.pc = "has_completed"
                                    THEN "has_completed_queue" ELSE "gate_queue",
                             !.expected = total_repositories_target,
                             !.persisted = total_persisted_repositories]]
    /\ UNCHANGED << stateVars, rows, config, supervisor, ghost, client >>

\* has_completed, its reads of the queue and of requests_pushed, reached with
\* has_persisted_enough_repositories false.  requests_pushed is read with the
\* queue: the caller pushed its seeds before, and the set never shrinks.
\* In crawl Err returns from crawl; in the retrier the ? returns it from fetch,
\* and crawl's own ? from crawl.  The Err carries the two counters as
\* has_completed read them ("Expected: ..., persisted: ...").
HasCompletedQueue(i) ==
    /\ worker[i].pc \in {"has_completed_queue", "gate_queue"}
    /\ LET w == worker[i]
           failed == has_failed(requests_priority_queue = << >>,
                                requests_pushed # {}, FALSE)
       IN  worker' = [worker EXCEPT ![i] =
              IF failed
              THEN [Returned(IF w.pc = "has_completed_queue"
                             THEN "not_enough" ELSE "not_enough_in_fetch")
                      EXCEPT !.expected = w.expected, !.persisted = w.persisted]
              ELSE [w EXCEPT !.pc = IF w.pc = "has_completed_queue"
                                    THEN "pop" ELSE "inner_fetch",
                             !.expected = 0, !.persisted = 0]]
    /\ UNCHANGED << stateVars, rows, config, supervisor, ghost, client >>

\* pop_request: None sends the worker back to the loop top.
PopRequest(i) ==
    /\ worker[i].pc = "pop"
    /\ IF requests_priority_queue = << >>
       THEN /\ worker' = [worker EXCEPT ![i] = LoopTop]
            /\ UNCHANGED << requests_priority_queue, ghost >>
       ELSE LET request == heap_pop_item(requests_priority_queue)
            IN  /\ requests_priority_queue' = heap_pop_rest(requests_priority_queue)
                /\ worker' = [worker EXCEPT ![i] =
                      [@ EXCEPT !.pc = "count_call", !.request = request]]
                /\ ghost' =
                      LET popped == [ghost EXCEPT !.pops[request] = @ + 1, !.effects[i] = 0]
                      IN  IF /\ "late_pops" \in DOMAIN ghost
                             /\ total_persisted_repositories >= total_repositories_target
                          THEN [popped EXCEPT !.late_pops[i] = @ + 1]
                          ELSE popped
    /\ UNCHANGED << requests_pushed, total_repositories_target, total_fetcher_calls,
                    total_persisted_repositories, total_collisions_repositories,
                    rows, config, supervisor, client >>

\* The worker going on to fetch without counting the call.
CountFetcherCallSkipped(i) ==
    /\ worker[i].pc = "count_call"
    /\ worker' = [worker EXCEPT ![i] =
          [@ EXCEPT !.pc = IF config.fetcher = "retrier" THEN "gate" ELSE "inner_fetch",
                    !.attempts = 0]]
    /\ ghost' = [ghost EXCEPT !.fetches[worker[i].request] = @ + 1]
    /\ UNCHANGED << stateVars, rows, config, supervisor, client >>

\* increment_total_fetcher_calls(1), then the call of self.fetcher.fetch.
CountFetcherCall(i) ==
    /\ worker[i].pc = "count_call"
    /\ total_fetcher_calls' = total_fetcher_calls + 1
    /\ worker' = [worker EXCEPT ![i] =
          [@ EXCEPT !.pc = IF config.fetcher = "retrier" THEN "gate" ELSE "inner_fetch",
                    !.attempts = 0]]
    /\ ghost' = [ghost EXCEPT !.fetches[worker[i].request] = @ + 1]
    /\ UNCHANGED << requests_priority_queue, requests_pushed, total_repositories_target,
                    total_persisted_repositories, total_collisions_repositories,
                    rows, config, supervisor, client >>

\* The inner fetcher answers.  Ok goes back to crawl (through the retrier
\* unchanged); Err fails crawl, or in the retrier costs an attempt: at
\* max_retries fetch fails, else it sleeps and asks has_completed again.
\* With Some, process_response hands the batch to the persister.
InnerFetch(i, outcome) ==
    /\ worker[i].pc = "inner_fetch"
    /\ LET w == worker[i]
       IN  CASE outcome.kind = "some" ->
                  /\ worker' = [worker EXCEPT ![i] =
                        [w EXCEPT !.pc = "persist", !.attempts = 0,
                                  !.batch = outcome.batch, !.next = outcome.next,
                                  !.row = 0, !.inserted = 0, !.tries = 0]]
                  /\ ghost' = [ghost EXCEPT !.handed = @ + Len(outcome.batch)]
            [] outcome.kind = "none" ->
                  /\ worker' = [worker EXCEPT ![i] = AfterEmptyFetch(w)]
                  /\ UNCHANGED ghost
            [] outcome.kind = "err" ->
                  /\ worker' = [worker EXCEPT ![i] =
                        IF config.fetcher = "stub" \/ retries_exhausted(w.attempts + 1, MaxRetries)
                        THEN Returned("fetch_failed")
                        ELSE [w EXCEPT !.pc = "gate", !.attempts = w.attempts + 1]]
                  /\ UNCHANGED ghost
    /\ UNCHANGED << stateVars, rows, config, supervisor, client >>

(***************************************************************************)
(* PostgresSqlPersister behind PersisterRetrier.  persist_repository is    *)
(* one transaction per repository running UPSERT_QUERY: an insert when the *)
(* key is free (xmax = 0, counted); on a conflict DO UPDATE applies only   *)
(* WHERE the stored repository_name IS DISTINCT FROM the new one, and a    *)
(* row the statement does not touch is not returned (counted 0).           *)
(***************************************************************************)
Conflicts(table, repository) == {x \in table : Key(x) = Key(repository)}

update_where(stored, excluded) == stored.repository_name # excluded.repository_name

upsert_rows(table, repository) ==
    IF Conflicts(table, repository) = {} THEN table \cup {repository}
    ELSE { IF Key(x) = Key(repository) /\ update_where(x, repository)
           THEN [x EXCEPT !.total_stars = repository.total_stars] ELSE x : x \in table }

\* The count UPSERT_QUERY returns although the key was taken.
upsert_count_on_conflict(table, repository) == 1

\* COUNT(*) of the returned rows with inserted = true.
upsert_count(table, repository) ==
    IF Conflicts(table, repository) = {} THEN 1 ELSE 0

\* The rows a failed persist call inserted, counted all the same.
counted_although_failed(inserted) == inserted

\* What process_response adds to total_persisted when persist returned Err:
\* nothing, the ? returns before increment_total_persisted_repositories.
counted_of_failed_persist(inserted) == 0

\* persist_repository for the next repository of the batch: it commits, or
\* the database fails it.  A failure fails PostgresSqlPersister::persist; the
\* retrier counts the attempt and at max_retries fails, else sleeps and calls
\* persist again from the first repository.
PersistRepository(i, committed) ==
    /\ worker[i].pc = "persist"
    /\ worker[i].row < Len(worker[i].batch)
    /\ LET w == worker[i]
           repository == w.batch[w.row + 1]
       IN  IF committed
           THEN /\ rows' = upsert_rows(rows, repository)
                /\ worker' = [worker EXCEPT ![i] =
                      [w EXCEPT !.row = w.row + 1,
                                !.inserted = w.inserted + upsert_count(rows, repository)]]
           ELSE /\ UNCHANGED rows
                /\ worker' = [worker EXCEPT ![i] =
                      IF retries_exhausted(w.tries + 1, MaxRetries)
                      THEN Returned("persist_failed")
                      ELSE [w EXCEPT !.row = 0, !.inserted = 0, !.tries = w.tries + 1]]
    /\ total_persisted_repositories' =
          IF ~committed /\ retries_exhausted(worker[i].tries + 1, MaxRetries)
          THEN total_persisted_repositories + counted_of_failed_persist(worker[i].inserted)
          ELSE total_persisted_repositories
    /\ ghost' =
          IF ~committed /\ retries_exhausted(worker[i].tries + 1, MaxRetries)
          THEN [ghost EXCEPT !.effects[i] = @ + counted_of_failed_persist(worker[i].inserted)]
          ELSE ghost
    /\ UNCHANGED << requests_priority_queue, requests_pushed, total_repositories_target,
                    total_fetcher_calls, total_collisions_repositories,
                    config, supervisor, client >>

\* The collisions of a batch, with the subtraction left out.
collisions_unsubtracted(len, total_persisted_repositories_call) == len

\* The subtraction of process_response with its operands exchanged.
collisions_reversed(len, total_persisted_repositories_call) ==
    total_persisted_repositories_call - len

\* process_response's argument to increment_total_collisions_repositories.
collisions_of(len, total_persisted_repositories_call) ==
    len - total_persisted_repositories_call

\* persist returned Ok(total_inserted): increment_total_persisted_repositories.
CountPersisted(i) ==
    /\ worker[i].pc = "persist"
    /\ worker[i].row = Len(worker[i].batch)
    /\ total_persisted_repositories' = total_persisted_repositories + worker[i].inserted
    /\ worker' = [worker EXCEPT ![i] = [@ EXCEPT !.pc = "count_collisions"]]
    /\ ghost' = [ghost EXCEPT !.settled = @ + Len(worker[i].batch),
                              !.effects[i] = @ + worker[i].inserted]
    /\ UNCHANGED << requests_priority_queue, requests_pushed, total_repositories_target,
                    total_fetcher_calls, total_collisions_repositories,
                    rows, config, supervisor, client >>

\* increment_total_collisions_repositories(len - total_inserted), the end of
\* process_response; crawl goes on to push_requests(next_requests).
CountCollisions(i) ==
    /\ worker[i].pc = "count_collisions"
    /\ LET w == worker[i]
       IN  /\ total_collisions_repositories' =
                 total_collisions_repositories + collisions_of(Len(w.batch), w.inserted)
           /\ worker' = [worker EXCEPT ![i] =
                 AfterPush([IdleWorker EXCEPT !.request = w.request, !.phase = "next",
                                              !.todo = w.next])]
           /\ ghost' = [ghost EXCEPT !.effects[i] =
                 @ + collisions_of(Len(w.batch), w.inserted)]
    /\ UNCHANGED << requests_priority_queue, requests_pushed, total_repositories_target,
                    total_fetcher_calls, total_persisted_repositories,
                    rows, config, supervisor, client >>

WorkerStep(i) ==
    \/ CrawlBegin(i)
    \/ PushRequestDedup(i)
    \/ PushRequestQueue(i)
    \/ HasCompletedCounters(i)
    \/ HasCompletedQueue(i)
    \/ PopRequest(i)
    \/ CountFetcherCall(i)
    \/ \E outcome \in FetchOutcomes : InnerFetch(i, outcome)
    \/ \E committed \in BOOLEAN : PersistRepository(i, committed)
    \/ CountPersisted(i)
    \/ CountCollisions(i)

(***************************************************************************)
(* ParallelCrawler::crawl.                                                 *)
(***************************************************************************)
\* The join loop at handle i: past the last handle crawl returns Ok.
JoinLoop(i) ==
    IF i > config.crawlers THEN [pc |-> "ok", i |-> 0] ELSE [pc |-> "join", i |-> i]

\* The spawn loop at child i: past the last child the join loop starts.
SpawnLoop(i) ==
    IF i > config.crawlers THEN JoinLoop(1) ELSE [pc |-> "spawn", i |-> i]

\* crawl's entry: the empty-requests check.
SupervisorBegin ==
    /\ supervisor.pc = "start"
    /\ supervisor' = IF config.seeds = << >> THEN [pc |-> "err", i |-> 0]
                     ELSE SpawnLoop(1)
    /\ UNCHANGED << stateVars, rows, config, worker, ghost, client >>

\* One turn of the spawn loop: (after the delay, for every child but the
\* first) tokio::spawn of child i's crawl with the seeds and the target.
SupervisorSpawn ==
    /\ supervisor.pc = "spawn"
    /\ worker' = [worker EXCEPT ![supervisor.i] = [IdleWorker EXCEPT !.pc = "start"]]
    /\ supervisor' = SpawnLoop(supervisor.i + 1)
    /\ UNCHANGED << stateVars, rows, config, ghost, client >>

\* handle.await? with the child's own Result dropped.
child_result_ignored(cause) == TRUE

\* handle.await??: the child's crawl returned Ok(()).
child_succeeded(cause) == cause = "done"

\* One turn of the join loop: handle i is ready; its Err returns from crawl.
SupervisorJoin ==
    /\ supervisor.pc = "join"
    /\ worker[supervisor.i].pc = "returned"
    /\ supervisor' = IF child_succeeded(worker[supervisor.i].cause)
                     THEN JoinLoop(supervisor.i + 1)
                     ELSE [pc |-> "err", i |-> supervisor.i]
    /\ UNCHANGED << stateVars, rows, config, worker, ghost, client >>

SupervisorStep == SupervisorBegin \/ SupervisorSpawn \/ SupervisorJoin

Next == (\E i \in Workers : WorkerStep(i)) \/ SupervisorStep

Spec == Init /\ [][Next]_vars

\* tokio runs every task that can run: weak fairness of each worker and of
\* the supervisor.
FairSpec == Spec /\ (\A i \in Workers : WF_vars(WorkerStep(i))) /\ WF_vars(SupervisorStep)

\* LateSpec: Spec with the history that counts the late pops.
LateInit ==
    /\ requests_priority_queue = << >>
    /\ requests_pushed = {}
    /\ total_repositories_target = 0
    /\ total_fetcher_calls = 0
    /\ total_persisted_repositories = 0
    /\ total_collisions_repositories = 0
    /\ rows \in InitialRows
    /\ config \in Configs
    /\ supervisor = IF config.mode = "parallel" THEN [pc |-> "start", i |-> 0]
                    ELSE IdleSupervisor
    /\ worker = [i \in Workers |->
                    IF config.mode = "worker" /\ i = 1
                    THEN [IdleWorker EXCEPT !.pc = "start"] ELSE IdleWorker]
    /\ ghost = [LateHistory EXCEPT !.initial = rows]
    /\ client = NoCall

LateSpec == LateInit /\ [][Next]_vars

(***************************************************************************)
(* RetrierSpec: one call of FetcherRetrier::fetch or PersisterRetrier::     *)
(* persist, on a CrawlerState prepared as the retriers' tests prepare it    *)
(* (target set, one request pushed), while other workers persist and pop.  *)
(* client is the call and its locals; ghost counts what the inner fetcher  *)
(* or persister saw (late: the inner fetch calls started once the target   *)
(* was reached) and lists the sleeps.                                      *)
(***************************************************************************)
\* The largest max_retries a retrier is built with.
MaxAttempts == 33

\* base_delay of the fetcher's retrier (s) and of the persister's (ms), as main sets them.
FetcherRetryBaseDelay == 10
PersisterRetryBaseDelay == 100

\* What the inner persister answers: Err, or Ok(total_inserted).
PersistOutcomes ==
    {[kind |-> "err", count |-> 0]} \cup {[kind |-> "ok", count |-> c] : c \in 0 .. 2}

NoOutcome == [kind |-> "no_call"]

IdleCall ==
    [op |-> "none", pc |-> "idle", attempts |-> 0, max_retries |-> 0, base_delay |-> 0,
     result |-> [kind |-> "none"]]

NoCalls == [calls |-> 0, failures |-> 0, sleeps |-> << >>, inner |-> NoOutcome,
            gated |-> FALSE, late |-> 0]

RetrierInit ==
    /\ requests_priority_queue = << Seed >>
    /\ requests_pushed = {Seed}
    /\ total_repositories_target \in 1 .. MaxTarget
    /\ total_fetcher_calls = 0
    /\ total_persisted_repositories = 0
    /\ total_collisions_repositories = 0
    /\ rows = {}
    /\ config = NoConfig
    /\ supervisor = IdleSupervisor
    /\ worker = << >>
    /\ ghost = NoCalls
    /\ client = IdleCall

\* FetcherRetrier::new(.., max_retries, base_delay, state) and the call of fetch:
\* attempts = 0, then the loop's first has_completed.
FetcherRetrierFetch(max_retries) ==
    /\ client.pc = "idle"
    /\ client' = [IdleCall EXCEPT !.op = "fetch", !.pc = "gate",
                                  !.max_retries = max_retries,
                                  !.base_delay = FetcherRetryBaseDelay]
    /\ UNCHANGED << stateVars, rows, config, supervisor, worker, ghost >>

\* PersisterRetrier::new(.., max_retries, base_delay) and the call of persist:
\* attempts = 0, then the loop's first inner persist.
PersisterRetrierPersist(max_retries) ==
    /\ client.pc = "idle"
    /\ client' = [IdleCall EXCEPT !.op = "persist", !.pc = "inner",
                                  !.max_retries = max_retries,
                                  !.base_delay = PersisterRetryBaseDelay]
    /\ UNCHANGED << stateVars, rows, config, supervisor, worker, ghost >>

\* fetch's has_completed, its reads of the target and of total_persisted:
\* Ok(true) ends the loop and fetch returns Ok(None).
FetcherRetrierGateCounters ==
    /\ client.op = "fetch" /\ client.pc = "gate"
    /\ IF has_persisted_enough_repositories(total_repositories_target,
                                            total_persisted_repositories)
       THEN /\ client' = [client EXCEPT !.pc = "returned",
                             !.result = [kind |-> "ok", value |-> [kind |-> "none"]]]
            /\ ghost' = [ghost EXCEPT !.gated = TRUE]
       ELSE /\ client' = [client EXCEPT !.pc = "gate_queue"]
            /\ UNCHANGED ghost
    /\ UNCHANGED << stateVars, rows, config, supervisor, worker >>

\* fetch's has_completed, its reads of the queue and of requests_pushed: Err
\* leaves fetch through the ?, Ok(false) enters the loop body.
FetcherRetrierGateQueue ==
    /\ client.op = "fetch" /\ client.pc = "gate_queue"
    /\ IF has_failed(requests_priority_queue = << >>, requests_pushed # {}, FALSE)
       THEN /\ client' = [client EXCEPT !.pc = "returned",
                                        !.result = [kind |-> "not_enough"]]
            /\ ghost' = [ghost EXCEPT !.gated = TRUE]
       ELSE /\ client' = [client EXCEPT !.pc = "inner"]
            /\ ghost' = [ghost EXCEPT !.late =
                  IF total_persisted_repositories >= total_repositories_target
                  THEN @ + 1 ELSE @]
    /\ UNCHANGED << stateVars, rows, config, supervisor, worker >>

\* The loop body of either retrier once the inner call has answered: Ok is
\* returned as it is; Err counts an attempt, and at max_retries returns
\* Err(Failed after N attempts), else the retrier goes to sleep.
retrier_after(call, outcome) ==
    IF outcome.kind # "err"
    THEN [call EXCEPT !.pc = "returned", !.result = [kind |-> "ok", value |-> outcome]]
    ELSE IF retries_exhausted(call.attempts + 1, call.max_retries)
         THEN [call EXCEPT !.pc = "returned", !.attempts = call.attempts + 1,
                           !.result = [kind |-> "failed_after",
                                       attempts |-> call.attempts + 1]]
         ELSE [call EXCEPT !.pc = "sleep", !.attempts = call.attempts + 1]

history_after(history, outcome) ==
    [history EXCEPT !.calls = @ + 1,
                    !.failures = IF outcome.kind = "err" THEN @ + 1 ELSE @,
                    !.inner = outcome]

\* self.fetcher.fetch(request) answers inside FetcherRetrier::fetch.
FetcherRetrierInner(outcome) ==
    /\ client.op = "fetch" /\ client.pc = "inner"
    /\ client' = retrier_after(client, outcome)
    /\ ghost' = history_after(ghost, outcome)
    /\ UNCHANGED << stateVars, rows, config, supervisor, worker >>

\* self.persister.persist(repositories) answers inside PersisterRetrier::persist.
PersisterRetrierInner(outcome) ==
    /\ client.op = "persist" /\ client.pc = "inner"
    /\ client' = retrier_after(client, outcome)
    /\ ghost' = history_after(ghost, outcome)
    /\ UNCHANGED << stateVars, rows, config, supervisor, worker >>

\* sleep(self.calculate_exponential_backoff_delay(attempts)): then the fetcher's
\* retrier asks has_completed again, the persister's calls its persister again.
RetrierSleep ==
    /\ client.pc = "sleep"
    /\ client' = [client EXCEPT !.pc = IF client.op = "fetch" THEN "gate" ELSE "inner"]
    /\ ghost' = [ghost EXCEPT !.sleeps =
          Append(@, calculate_exponential_backoff_delay(client.base_delay, client.attempts))]
    /\ UNCHANGED << stateVars, rows, config, supervisor, worker >>

\* Another worker's process_response: increment_total_persisted_repositories(1).
OtherWorkerPersists ==
    /\ total_persisted_repositories < total_repositories_target
    /\ total_persisted_repositories' = total_persisted_repositories + 1
    /\ UNCHANGED << requests_priority_queue, requests_pushed, total_repositories_target,
                    total_fetcher_calls, total_collisions_repositories,
                    rows, config, supervisor, worker, ghost, client >>

\* Another worker's pop_request.
OtherWorkerPops ==
    /\ requests_priority_queue # << >>
    /\ requests_priority_queue' = heap_pop_rest(requests_priority_queue)
    /\ UNCHANGED << requests_pushed, total_repositories_target, total_fetcher_calls,
                    total_persisted_repositories, total_collisions_repositories,
                    rows, config, supervisor, worker, ghost, client >>

RetrierNext ==
    \/ \E max_retries \in 0 .. MaxAttempts : FetcherRetrierFetch(max_retries)
    \/ \E max_retries \in 0 .. MaxAttempts : PersisterRetrierPersist(max_retries)
    \/ FetcherRetrierGateCounters
    \/ FetcherRetrierGateQueue
    \/ \E outcome \in FetchOutcomes : FetcherRetrierInner(outcome)
    \/ \E outcome \in PersistOutcomes : PersisterRetrierInner(outcome)
    \/ RetrierSleep
    \/ OtherWorkerPersists
    \/ OtherWorkerPops

RetrierSpec == RetrierInit /\ [][RetrierNext]_vars

(***************************************************************************)
(* EnforcerSpec: one call of FetcherRateLimitEnforcer::fetch while the      *)
(* clock runs.  client is the call; ghost is the clock, the instant        *)
(* Utc::now() gave and the sleeps made.  FetcherRateLimit's is_exceeded    *)
(* and duration_until_reset are called by the enforcer but defined in no   *)
(* file of the repository: they are modelled as the specification words    *)
(* them (exceeded iff remaining <= 0; max(0, resetAt - now)), with an      *)
(* error for a reset_at that is no RFC-3339 instant, which the ? of the    *)
(* call site propagates.                                                   *)
(***************************************************************************)
\* The last instant of the clock.
MaxClock == 3

Instants == 0 .. MaxClock

\* reset_at: a string that is the RFC-3339 form of an instant, or is not.
Rfc3339(instant) == [valid |-> TRUE, at |-> instant]

NotAnInstant == [valid |-> FALSE, at |-> 0]

ResetAts == {Rfc3339(instant) : instant \in Instants} \cup {NotAnInstant}

FetcherRateLimit(remaining, reset_at) == [remaining |-> remaining, reset_at |-> reset_at]

RateLimits ==
    {FetcherRateLimit(remaining, reset_at) :
        remaining \in {-1, 0, 1}, reset_at \in ResetAts}

\* What the enforcer's inner fetcher answers with.
EnforcerOutcomes ==
    {[kind |-> "err"], [kind |-> "none"]}
    \cup {[kind |-> "some", batch |-> << Repository1 >>, next |-> << Detail >>,
           rate_limit |-> rate_limit] : rate_limit \in RateLimits}

is_exceeded(rate_limit) == rate_limit.remaining <= 0

duration_until_reset(rate_limit, now) ==
    IF ~rate_limit.reset_at.valid THEN [ok |-> FALSE, duration |-> 0]
    ELSE [ok |-> TRUE,
          duration |-> IF rate_limit.reset_at.at > now
                       THEN rate_limit.reset_at.at - now ELSE 0]

\* The enforcer waiting whatever the response says.
must_wait_always(outcome) == TRUE

\* if response.rate_limit().is_exceeded()
must_wait(outcome) == is_exceeded(outcome.rate_limit)

\* A sleep that returns at once.
wake_at_once(now, duration) == now

\* sleep(duration_until_reset).await: the earliest instant it returns at.
wake_at(now, duration) == now + duration

IdleEnforcer ==
    [op |-> "none", pc |-> "idle", inner |-> NoOutcome, wake |-> 0,
     result |-> [kind |-> "none"]]

ClockStart == [now |-> 0, called_at |-> 0, read_at |-> 0, sleeps |-> << >>]

EnforcerInit ==
    /\ requests_priority_queue = << >>
    /\ requests_pushed = {}
    /\ total_repositories_target = 0
    /\ total_fetcher_calls = 0
    /\ total_persisted_repositories = 0
    /\ total_collisions_repositories = 0
    /\ rows = {}
    /\ config = NoConfig
    /\ supervisor = IdleSupervisor
    /\ worker = << >>
    /\ ghost = ClockStart
    /\ client = IdleEnforcer

\* Time passes.
Tick ==
    /\ ghost.now < MaxClock
    /\ ghost' = [ghost EXCEPT !.now = @ + 1]
    /\ UNCHANGED << stateVars, rows, config, supervisor, worker, client >>

\* fetch is called: it calls the inner fetcher.
EnforcerFetch ==
    /\ client.pc = "idle"
    /\ client' = [IdleEnforcer EXCEPT !.op = "fetch", !.pc = "inner"]
    /\ ghost' = [ghost EXCEPT !.called_at = ghost.now]
    /\ UNCHANGED << stateVars, rows, config, supervisor, worker >>

\* self.fetcher.fetch(request).await? answers: Err leaves fetch through the ?,
\* None is returned as Ok(None), Some not exceeded as it is; Some exceeded goes
\* on to read the clock.
EnforcerInner(outcome) ==
    /\ client.pc = "inner"
    /\ client' =
          IF outcome.kind = "err"
          THEN [client EXCEPT !.pc = "returned", !.inner = outcome,
                              !.result = [kind |-> "err", error |-> outcome]]
          ELSE IF outcome.kind = "none"
          THEN [client EXCEPT !.pc = "returned", !.inner = outcome,
                              !.result = [kind |-> "ok", value |-> outcome]]
          ELSE IF must_wait(outcome)
          THEN [client EXCEPT !.pc = "read_clock", !.inner = outcome]
          ELSE [client EXCEPT !.pc = "returned", !.inner = outcome,
                              !.result = [kind |-> "ok", value |-> outcome]]
    /\ UNCHANGED << stateVars, rows, config, supervisor, worker, ghost >>

\* duration_until_reset(Utc::now())?: Err leaves fetch, Ok starts the sleep.
EnforcerReadClock ==
    /\ client.pc = "read_clock"
    /\ LET until == duration_until_reset(client.inner.rate_limit, ghost.now)
       IN  IF until.ok
           THEN /\ client' = [client EXCEPT !.pc = "sleeping",
                                 !.wake = wake_at(ghost.now, until.duration)]
                /\ ghost' = [ghost EXCEPT !.read_at = ghost.now,
                                          !.sleeps = Append(@, until.duration)]
           ELSE /\ client' = [client EXCEPT !.pc = "returned",
                                 !.result = [kind |-> "err", error |-> NotAnInstant]]
                /\ ghost' = [ghost EXCEPT !.read_at = ghost.now]
    /\ UNCHANGED << stateVars, rows, config, supervisor, worker >>

\* The sleep is over (not before its duration has passed): Ok(Some((response,
\* requests))) with what the inner fetcher gave.
EnforcerWake ==
    /\ client.pc = "sleeping"
    /\ ghost.now >= client.wake
    /\ client' = [client EXCEPT !.pc = "returned",
                                !.result = [kind |-> "ok", value |-> client.inner]]
    /\ UNCHANGED << stateVars, rows, config, supervisor, worker, ghost >>

EnforcerNext ==
    \/ Tick
    \/ EnforcerFetch
    \/ \E outcome \in EnforcerOutcomes : EnforcerInner(outcome)
    \/ EnforcerReadClock
    \/ EnforcerWake

EnforcerSpec == EnforcerInit /\ [][EnforcerNext]_vars

(***************************************************************************)
(* ParallelSpec: one call of ParallelCrawler::crawl over child crawlers    *)
(* that are known by their RepositoryCrawler interface alone (the mocks of *)
(* the tests of crawler_parallel.rs): a child's crawl, once spawned, runs  *)
(* for some time and returns Ok or Err.  ghost holds the clock, when each  *)
(* child was spawned, the sleeps and the order the children failed in.     *)
(***************************************************************************)
\* The longest crawler list.
MaxCrawlers == 3

Crawlers == 1 .. MaxCrawlers

\* delay_between_crawlers, as main sets it (s).
DelayBetweenCrawlers == 1

\* The delays a ParallelCrawler is built with.
Delays == {0, DelayBetweenCrawlers}

ParallelConfigs ==
    [mode : {"parallel"}, crawlers : 0 .. MaxCrawlers, seeds : SeedLists,
     target : 1 .. MaxTarget, delay : Delays]

\* A child crawler before ParallelCrawler spawned its crawl.
IdleChild ==
    [pc |-> "idle", cause |-> "none", requests |-> << >>, total_repositories |-> 0,
     calls |-> 0]

ParallelStart ==
    [now |-> 0, called_at |-> 0, spawned_at |-> [i \in Crawlers |-> 0],
     sleeps |-> << >>, failed |-> << >>]

ParallelInit ==
    /\ requests_priority_queue = << >>
    /\ requests_pushed = {}
    /\ total_repositories_target = 0
    /\ total_fetcher_calls = 0
    /\ total_persisted_repositories = 0
    /\ total_collisions_repositories = 0
    /\ rows = {}
    /\ config \in ParallelConfigs
    /\ supervisor = [pc |-> "start", i |-> 0, wake |-> 0]
    /\ worker = [i \in Crawlers |-> IdleChild]
    /\ ghost = ParallelStart
    /\ client = NoCall

\* The join loop at handle i: past the last handle crawl returns Ok(()).
ParallelJoinLoop(i) ==
    IF i > config.crawlers THEN [pc |-> "ok", i |-> 0, wake |-> 0]
    ELSE [pc |-> "join", i |-> i, wake |-> 0]

\* The spawn loop with no sleep between two children.
spawn_loop_without_sleep(i, now) ==
    IF i > config.crawlers THEN ParallelJoinLoop(1)
    ELSE [pc |-> "spawn", i |-> i, wake |-> now]

\* The spawn loop at child i: every child but the first is spawned after
\* sleep(delay_between_crawlers); past the last child the join loop starts.
ParallelSpawnLoop(i, now) ==
    IF i > config.crawlers THEN ParallelJoinLoop(1)
    ELSE IF i > 1 THEN [pc |-> "sleep", i |-> i, wake |-> wake_at(now, config.delay)]
    ELSE [pc |-> "spawn", i |-> i, wake |-> now]

\* The sleeps so far, with the one the spawn loop starts before child i.
SleepsWith(sleeps, i) ==
    IF 1 < i /\ i <= config.crawlers THEN Append(sleeps, config.delay) ELSE sleeps

\* A crawl that takes any request list.
no_requests_never(requests) == FALSE

\* requests.is_empty(): "No requests provided".
no_requests_provided(requests) == requests = << >>

\* crawl's entry: the empty-requests check.
ParallelBegin ==
    /\ supervisor.pc = "start"
    /\ supervisor' = IF no_requests_provided(config.seeds)
                     THEN [pc |-> "err", i |-> 0, wake |-> 0]
                     ELSE ParallelSpawnLoop(1, ghost.now)
    /\ ghost' = [ghost EXCEPT !.called_at = ghost.now]
    /\ UNCHANGED << stateVars, rows, config, worker, client >>

\* sleep(self.delay_between_crawlers).await returns.
ParallelSleepOver ==
    /\ supervisor.pc = "sleep"
    /\ ghost.now >= supervisor.wake
    /\ supervisor' = [supervisor EXCEPT !.pc = "spawn"]
    /\ UNCHANGED << stateVars, rows, config, worker, ghost, client >>

\* tokio::spawn of child i's crawl with a clone of the requests and the
\* target, then the next turn of the spawn loop.
ParallelSpawn ==
    /\ supervisor.pc = "spawn"
    /\ LET i == supervisor.i
       IN  /\ worker' = [worker EXCEPT ![i] =
                  [@ EXCEPT !.pc = "running", !.requests = config.seeds,
                            !.total_repositories = config.target, !.calls = @ + 1]]
           /\ supervisor' = ParallelSpawnLoop(i + 1, ghost.now)
           /\ ghost' = [ghost EXCEPT !.spawned_at[i] = ghost.now,
                                     !.sleeps = SleepsWith(@, i + 1)]
    /\ UNCHANGED << stateVars, rows, config, client >>

\* A spawned child's crawl returns Ok(()) ("done") or Err.
ChildReturns(i, cause) ==
    /\ worker[i].pc = "running"
    /\ worker' = [worker EXCEPT ![i] = [@ EXCEPT !.pc = "returned", !.cause = cause]]
    /\ ghost' = [ghost EXCEPT !.failed =
                    IF child_succeeded(cause) THEN @ ELSE Append(@, i)]
    /\ UNCHANGED << stateVars, rows, config, supervisor, client >>

\* One turn of the join loop: handle.await?? of handle i, in list order; an
\* Err returns from crawl at once.
ParallelJoin ==
    /\ supervisor.pc = "join"
    /\ worker[supervisor.i].pc = "returned"
    /\ supervisor' = IF child_succeeded(worker[supervisor.i].cause)
                     THEN ParallelJoinLoop(supervisor.i + 1)
                     ELSE [pc |-> "err", i |-> supervisor.i, wake |-> 0]
    /\ UNCHANGED << stateVars, rows, config, worker, ghost, client >>

ParallelNext ==
    \/ Tick
    \/ ParallelBegin
    \/ ParallelSleepOver
    \/ ParallelSpawn
    \/ \E i \in Crawlers, cause \in {"done", "failed"} : ChildReturns(i, cause)
    \/ ParallelJoin

ParallelSpec == ParallelInit /\ [][ParallelNext]_vars

(***************************************************************************)
(* GraphQlSpec: one call of GraphQlFetcher::fetch.  The adapter turns the  *)
(* request into the variables of SEARCH_QUERY, sends them, and turns what  *)
(* query_with_vars_unwrap answers, Ok(SearchQueryData) or                  *)
(* Err(GraphQLError), into the fetcher's result.  client is the call.      *)
(***************************************************************************)
\* The longest edges list of a page.
MaxEdges == 3

\* "Failed to parse response", "org:", " stars:>0", "502 ".
ParseMarker ==
    << 70, 97, 105, 108, 101, 100, 32, 116, 111, 32, 112, 97, 114, 115, 101, 32,
       114, 101, 115, 112, 111, 110, 115, 101 >>
OrgPrefix == << 111, 114, 103, 58 >>
StarsSuffix == << 32, 115, 116, 97, 114, 115, 58, 62, 48 >>
BadGateway == << 53, 48, 50, 32 >>

\* str::contains
contains(s, pattern) ==
    \E i \in 0 .. Len(s) - Len(pattern) : SubSeq(s, i + 1, i + Len(pattern)) = pattern

\* The requests fetch is called with.
GraphQlRequests ==
    {SearchOrganization(StrQ, SmallFirst, after) : after \in {None, Some(StrC)}}
    \cup {RepositoriesFromOrganization(StrO, SmallFirst, after) : after \in {None, Some(StrC)}}

\* Option<SearchEdge>: a null edge, or an edge with its RepositoryNode.
NullEdge == [some |-> FALSE, node |-> [name |-> Empty, login |-> Empty, stargazerCount |-> 0]]
SearchEdge(name, login, stargazerCount) ==
    [some |-> TRUE, node |-> [name |-> name, login |-> login,
                              stargazerCount |-> stargazerCount]]

Edges ==
    {NullEdge} \cup {SearchEdge(name, login, 10) : name \in {StrB, StrC}, login \in {StrO, StrQ}}

EdgeLists == UNION {[1 .. n -> Edges] : n \in 0 .. MaxEdges}

\* SearchQueryData as deserialized: search.edges, search.pageInfo, rateLimit.
SearchQueryDatas ==
    [edges : EdgeLists, hasNextPage : BOOLEAN, endCursor : {None, Some(StrB)},
     rateLimit : {[remaining |-> 1, resetAt |-> Rfc3339(1)],
                  [remaining |-> 0, resetAt |-> NotAnInstant]}]

\* GraphQLError::message(): a response that did not parse, a remote failure,
\* a remote failure whose text quotes the parse message, the empty message.
GraphQLErrors == {ParseMarker, BadGateway, BadGateway \o ParseMarker, Empty}

\* What query_with_vars_unwrap answers.
Replies ==
    {[ok |-> TRUE, data |-> data, message |-> Empty] : data \in SearchQueryDatas}
    \cup {[ok |-> FALSE, data |-> << >>, message |-> message] : message \in GraphQLErrors}

\* impl From<&...Request> for GraphQlSearchQuery.
GraphQlSearchQuery(request) ==
    [query |-> IF request.variant = "SearchOrganization" THEN request.name
               ELSE OrgPrefix \o request.name \o StarsSuffix,
     first |-> request.first, after |-> request.after]

\* Every GraphQLError taken for a remote error.
into_remote_error(message) == [variant |-> "Remote", message |-> message]

\* impl Into<FetcherError> for GraphQLError.
into_fetcher_error(message) ==
    [variant |-> IF contains(message, ParseMarker) THEN "Parse" ELSE "Remote",
     message |-> message]

\* impl From<RateLimit> for FetcherRateLimit.
rate_limit_from(rateLimit) == FetcherRateLimit(rateLimit.remaining, rateLimit.resetAt)

\* Response::new
Response(repositories, rate_limit) ==
    [repositories |-> repositories, rate_limit |-> rate_limit]

\* The three results of fetch.
FetchErr(error) == [kind |-> "err", error |-> error]
FetchNone == [kind |-> "none"]
FetchSome(response, next_requests) ==
    [kind |-> "some", response |-> response, next_requests |-> next_requests]

\* edges.into_iter().filter_map(|edge| edge.map(...)): the nodes of the
\* edges that are not null, in order.
nodes_of(edges) ==
    LET kept == SelectSeq(edges, LAMBDA edge : edge.some)
    IN  [k \in 1 .. Len(kept) |-> kept[k].node]

\* The next requests of a search page with the continuation put first.
organizations_continuation_first(request, data) ==
    LET nodes == nodes_of(data.edges)
        owners == [k \in 1 .. Len(nodes) |->
                     RepositoriesFromOrganization(nodes[k].login, request.first, None)]
    IN  IF data.hasNextPage
        THEN << SearchOrganization(request.name, request.first, data.endCursor) >> \o owners
        ELSE owners

\* The next requests of fetch_organizations: one per owner, then the
\* continuation if hasNextPage.
organizations_next_requests(request, data) ==
    LET nodes == nodes_of(data.edges)
        owners == [k \in 1 .. Len(nodes) |->
                     RepositoriesFromOrganization(nodes[k].login, request.first, None)]
    IN  IF data.hasNextPage
        THEN Append(owners, SearchOrganization(request.name, request.first, data.endCursor))
        ELSE owners

\* fetch_organizations, after the query: a Parse error is logged and gives
\* Ok(None), any other error leaves through the ?.
fetch_organizations(request, reply) ==
    IF ~reply.ok /\ into_fetcher_error(reply.message).variant = "Parse" THEN FetchNone
    ELSE IF ~reply.ok THEN FetchErr(into_fetcher_error(reply.message))
    ELSE IF reply.data.edges = << >> THEN FetchNone
    ELSE FetchSome(Response(<< >>, rate_limit_from(reply.data.rateLimit)),
                   organizations_next_requests(request, reply.data))

\* The repositories of a page, named after the owner the edge gives.
repositories_by_owner(request, data) ==
    LET nodes == nodes_of(data.edges)
    IN  [k \in 1 .. Len(nodes) |->
           Repository(nodes[k].name, nodes[k].login, nodes[k].stargazerCount)]

\* The repositories of fetch_repositories_from_organization: the node's name
\* and stars under the request's organization_name.
repositories_of(request, data) ==
    LET nodes == nodes_of(data.edges)
    IN  [k \in 1 .. Len(nodes) |->
           Repository(nodes[k].name, request.name, nodes[k].stargazerCount)]

\* fetch_repositories_from_organization, after the query: every error leaves
\* through the ?.
fetch_repositories_from_organization(request, reply) ==
    IF ~reply.ok THEN FetchErr(into_fetcher_error(reply.message))
    ELSE IF reply.data.edges = << >> THEN FetchNone
    ELSE FetchSome(Response(repositories_of(request, reply.data),
                            rate_limit_from(reply.data.rateLimit)),
                   IF reply.data.hasNextPage
                   THEN << RepositoriesFromOrganization(request.name, request.first,
                                                        reply.data.endCursor) >>
                   ELSE << >>)

\* impl RepositoryFetcher for GraphQlFetcher: fetch by the request's variant.
fetch(request, reply) ==
    IF request.variant = "SearchOrganization" THEN fetch_organizations(request, reply)
    ELSE fetch_repositories_from_organization(request, reply)

IdleFetch ==
    [op |-> "none", pc |-> "idle", request |-> NoRequest,
     query |-> GraphQlSearchQuery(NoRequest),
     reply |-> [ok |-> FALSE, data |-> << >>, message |-> Empty], result |-> FetchNone]

GraphQlInit ==
    /\ requests_priority_queue = << >>
    /\ requests_pushed = {}
    /\ total_repositories_target = 0
    /\ total_fetcher_calls = 0
    /\ total_persisted_repositories = 0
    /\ total_collisions_repositories = 0
    /\ rows = {}
    /\ config = NoConfig
    /\ supervisor = IdleSupervisor
    /\ worker = << >>
    /\ ghost = << >>
    /\ client = IdleFetch

\* fetch is called: the request becomes the query's variables and is sent.
GraphQlQuery(request) ==
    /\ client.pc = "idle"
    /\ client' = [client EXCEPT !.op = "fetch", !.pc = "sent", !.request = request,
                                !.query = GraphQlSearchQuery(request)]
    /\ UNCHANGED << stateVars, rows, config, supervisor, worker, ghost >>

\* query_with_vars_unwrap answers, and fetch returns.
GraphQlReply(reply) ==
    /\ client.pc = "sent"
    /\ client' = [client EXCEPT !.pc = "returned", !.reply = reply,
                                !.result = fetch(client.request, reply)]
    /\ UNCHANGED << stateVars, rows, config, supervisor, worker, ghost >>

GraphQlNext ==
    \/ \E request \in GraphQlRequests : GraphQlQuery(request)
    \/ \E reply \in Replies : GraphQlReply(reply)

GraphQlSpec == GraphQlInit /\ [][GraphQlNext]_vars

(***************************************************************************)
(* ProcessSpec: one WorkerCrawler whose process_response is called twice   *)
(* with the same batch, its persister a PersisterRetrier around            *)
(* PostgresSqlPersister, no other worker on the CrawlerState or the store. *)
(* client is the call and its locals; ghost keeps the table as it was and, *)
(* for each call that returned Ok, what it added to the two counters and   *)
(* whether its persist was retried.                                        *)
(***************************************************************************)
\* The batches process_response is called with: distinct keys, or one key twice.
ProcessBatches ==
    {<< Repository1 >>, << Repository1, Repository2 >>, << Repository2, Repository1 >>,
     << Repository1, Repository1 >>}

IdleProcess ==
    [op |-> "none", pc |-> "idle", batch |-> << >>, call |-> 0, row |-> 0,
     inserted |-> 0, tries |-> 0, persisted_before |-> 0, collisions_before |-> 0]

ProcessInit ==
    /\ requests_priority_queue = << >>
    /\ requests_pushed = {}
    /\ total_repositories_target = 0
    /\ total_fetcher_calls = 0
    /\ total_persisted_repositories = 0
    /\ total_collisions_repositories = 0
    /\ rows \in InitialRows
    /\ config = NoConfig
    /\ supervisor = IdleSupervisor
    /\ worker = << >>
    /\ ghost = [initial |-> rows, added |-> << >>]
    /\ \E batch \in ProcessBatches : client = [IdleProcess EXCEPT !.batch = batch]

\* process_response is called with the batch: it calls persist.
ProcessResponse ==
    /\ client.pc = "idle"
    /\ client.call < 2
    /\ client' = [client EXCEPT !.op = "process_response", !.pc = "persist",
                                !.call = @ + 1, !.row = 0, !.inserted = 0, !.tries = 0,
                                !.persisted_before = total_persisted_repositories,
                                !.collisions_before = total_collisions_repositories]
    /\ UNCHANGED << stateVars, rows, config, supervisor, worker, ghost >>

\* persist_repository for the next repository of the batch: it commits, or
\* it fails and PersisterRetrier starts the batch again, or gives up.
ProcessPersistRepository(committed) ==
    /\ client.pc = "persist"
    /\ client.row < Len(client.batch)
    /\ LET repository == client.batch[client.row + 1]
       IN  IF committed
           THEN /\ rows' = upsert_rows(rows, repository)
                /\ client' = [client EXCEPT
                      !.row = @ + 1,
                      !.inserted = @ + upsert_count(rows, repository)]
           ELSE /\ UNCHANGED rows
                /\ client' =
                      IF retries_exhausted(client.tries + 1, MaxRetries)
                      THEN [client EXCEPT !.pc = "failed"]
                      ELSE [client EXCEPT !.row = 0, !.inserted = 0, !.tries = @ + 1]
    /\ UNCHANGED << stateVars, config, supervisor, worker, ghost >>

\* persist returned Ok(total_inserted): increment_total_persisted_repositories.
ProcessCountPersisted ==
    /\ client.pc = "persist"
    /\ client.row = Len(client.batch)
    /\ total_persisted_repositories' = total_persisted_repositories + client.inserted
    /\ client' = [client EXCEPT !.pc = "count_collisions"]
    /\ UNCHANGED << requests_priority_queue, requests_pushed, total_repositories_target,
                    total_fetcher_calls, total_collisions_repositories,
                    rows, config, supervisor, worker, ghost >>

\* increment_total_collisions_repositories, and process_response returns Ok.
ProcessCountCollisions ==
    /\ client.pc = "count_collisions"
    /\ total_collisions_repositories' =
          total_collisions_repositories + collisions_of(Len(client.batch), client.inserted)
    /\ client' = [client EXCEPT !.pc = "idle"]
    /\ ghost' = [ghost EXCEPT !.added = Append(@,
          [persisted |-> total_persisted_repositories - client.persisted_before,
           collisions |-> total_collisions_repositories' - client.collisions_before,
           retried |-> client.tries > 0])]
    /\ UNCHANGED << requests_priority_queue, requests_pushed, total_repositories_target,
                    total_fetcher_calls, total_persisted_repositories,
                    rows, config, supervisor, worker >>

ProcessNext ==
    \/ ProcessResponse
    \/ \E committed \in BOOLEAN : ProcessPersistRepository(committed)
    \/ ProcessCountPersisted
    \/ ProcessCountCollisions

ProcessSpec == ProcessInit /\ [][ProcessNext]_vars

(***************************************************************************)
(* LockSpec: the RwLocks of CrawlerState.  Each task is a worker running   *)
(* one CrawlerState operation, or one sleep, at a time; an operation is    *)
(* the list of lock acquisitions and guard drops of its body.  A tokio     *)
(* RwLock serves its waiters first come first served: a write needs the    *)
(* lock free, a read needs it free of a writer.  worker holds each task's  *)
(* operation and what is left of it, client the locks: holders, mode and   *)
(* waiters.  LockFairSpec is LockSpec with the fairness of the scheduler.  *)
(***************************************************************************)
\* The tasks are the crawl's workers.
Tasks == Workers

\* The RwLock fields of CrawlerState.
Locks ==
    {"requests_priority_queue", "requests_pushed", "total_repositories_target",
     "total_fetcher_calls", "total_persisted_repositories",
     "total_collisions_repositories", "current_api_rate_limit"}

\* lock.read().await or lock.write().await, and the drop of its guard.
Take(mode, lock) == [do |-> mode, lock |-> lock]
Drop(lock) == [do |-> "drop", lock |-> lock]

\* A guard taken and dropped in one block or one statement: the getters and
\* the setters of CrawlerState.
Scoped(mode, lock) == << Take(mode, lock), Drop(lock) >>

\* has_completed: the two counters, then the queue and requests_pushed when
\* the target is not reached.
has_completed_locks(enough) ==
    Scoped("read", "total_repositories_target")
    \o Scoped("read", "total_persisted_repositories")
    \o (IF enough THEN << >>
        ELSE Scoped("read", "requests_priority_queue") \o Scoped("read", "requests_pushed"))

\* push_request keeping requests_pushed locked while it pushes to the queue.
push_request_nested(known) ==
    IF known THEN Scoped("write", "requests_pushed")
    ELSE << Take("write", "requests_pushed"), Take("write", "requests_priority_queue"),
            Drop("requests_priority_queue"), Drop("requests_pushed") >>

\* push_request: requests_pushed in its own block, then the queue unless the
\* request was known.
push_request_locks(known) ==
    Scoped("write", "requests_pushed")
    \o (IF known THEN << >> ELSE Scoped("write", "requests_priority_queue"))

\* state_summary: four read guards kept to the end of the function, the
\* queue's guard dropped at the end of its statement, then
\* get_total_repositories_target.
state_summary_locks ==
    << Take("read", "total_fetcher_calls"), Take("read", "total_persisted_repositories"),
       Take("read", "total_collisions_repositories"), Take("read", "current_api_rate_limit") >>
    \o Scoped("read", "requests_priority_queue")
    \o Scoped("read", "total_repositories_target")
    \o << Drop("current_api_rate_limit"), Drop("total_collisions_repositories"),
          Drop("total_persisted_repositories"), Drop("total_fetcher_calls") >>

\* What a worker does between two operations on CrawlerState: the sleep of
\* FetcherRateLimitEnforcer::fetch or of a retrier's backoff.
Sleeping == << [do |-> "sleep", lock |-> "none"] >>

\* The operations a worker calls, each with the locks of its body.
Operations ==
    {[op |-> "has_completed", todo |-> has_completed_locks(enough)] : enough \in BOOLEAN}
    \cup {[op |-> "push_request", todo |-> push_request_locks(known)] : known \in BOOLEAN}
    \cup {[op |-> "pop_request", todo |-> Scoped("write", "requests_priority_queue")],
          [op |-> "state_summary", todo |-> state_summary_locks],
          [op |-> "sleep", todo |-> Sleeping]}
    \cup {[op |-> "get", todo |-> Scoped("read", lock)] :
             lock \in Locks \ {"requests_priority_queue", "requests_pushed"}}
    \cup {[op |-> "set", todo |-> Scoped("write", lock)] :
             lock \in Locks \ {"requests_priority_queue", "requests_pushed"}}

IdleTask == [op |-> "none", todo |-> << >>, waiting |-> FALSE]

FreeLock == [holders |-> {}, mode |-> "free", waiters |-> << >>]

LockInit ==
    /\ requests_priority_queue = << >>
    /\ requests_pushed = {}
    /\ total_repositories_target = 0
    /\ total_fetcher_calls = 0
    /\ total_persisted_repositories = 0
    /\ total_collisions_repositories = 0
    /\ rows = {}
    /\ config = NoConfig
    /\ supervisor = IdleSupervisor
    /\ worker = [t \in Tasks |-> IdleTask]
    /\ ghost = << >>
    /\ client = [lock \in Locks |-> FreeLock]

LockFrame ==
    UNCHANGED << stateVars, rows, config, supervisor, ghost >>

\* The locks a task holds.
Held(t) == {lock \in Locks : t \in client[lock].holders}

\* A worker calls an operation of CrawlerState, or goes to sleep.
LockCall(t, operation) ==
    /\ worker[t].todo = << >>
    /\ worker' = [worker EXCEPT ![t] = [op |-> operation.op, todo |-> operation.todo,
                                        waiting |-> FALSE]]
    /\ UNCHANGED client
    /\ LockFrame

\* lock.read() or lock.write() is polled: the task joins the lock's waiters.
LockAwait(t) ==
    /\ worker[t].todo # << >> /\ ~worker[t].waiting
    /\ Head(worker[t].todo).do \in {"read", "write"}
    /\ worker' = [worker EXCEPT ![t].waiting = TRUE]
    /\ client' = [client EXCEPT ![Head(worker[t].todo).lock].waiters = Append(@, t)]
    /\ LockFrame

\* The first waiter of a lock gets its guard: a writer when nobody holds the
\* lock, a reader when no writer does.
LockGrant(lock) ==
    /\ client[lock].waiters # << >>
    /\ LET t == Head(client[lock].waiters)
           mode == Head(worker[t].todo).do
       IN  /\ IF mode = "write" THEN client[lock].mode = "free"
                                ELSE client[lock].mode # "write"
           /\ client' = [client EXCEPT ![lock] =
                 [holders |-> @.holders \cup {t}, mode |-> mode,
                  waiters |-> Tail(@.waiters)]]
           /\ worker' = [worker EXCEPT ![t] =
                 [@ EXCEPT !.waiting = FALSE, !.todo = Tail(@)]]
    /\ LockFrame

\* A guard is dropped.
LockDrop(t) ==
    /\ worker[t].todo # << >>
    /\ Head(worker[t].todo).do = "drop"
    /\ LET lock == Head(worker[t].todo).lock
       IN  client' = [client EXCEPT ![lock] =
              [@ EXCEPT !.holders = @ \ {t},
                        !.mode = IF client[lock].holders = {t} THEN "free" ELSE @]]
    /\ worker' = [worker EXCEPT ![t].todo = Tail(@)]
    /\ LockFrame

\* The sleep is over.
LockSleep(t) ==
    /\ worker[t].todo # << >>
    /\ Head(worker[t].todo).do = "sleep"
    /\ worker' = [worker EXCEPT ![t].todo = Tail(@)]
    /\ UNCHANGED client
    /\ LockFrame

LockNext ==
    \/ \E t \in Tasks, operation \in Operations : LockCall(t, operation)
    \/ \E t \in Tasks : LockAwait(t)
    \/ \E lock \in Locks : LockGrant(lock)
    \/ \E t \in Tasks : LockDrop(t)
    \/ \E t \in Tasks : LockSleep(t)

LockSpec == LockInit /\ [][LockNext]_vars

\* tokio runs every task that can run, and every sleep ends.
LockFairSpec ==
    /\ LockSpec
    /\ \A t \in Tasks : WF_vars(LockAwait(t) \/ LockDrop(t) \/ LockSleep(t))
    /\ \A lock \in Locks : WF_vars(LockGrant(lock))

(***************************************************************************)
(* SequentialSpec: a fresh SequentialCrawler and a fresh WorkerCrawler     *)
(* given the same stubs, one after the other.  The SequentialCrawler owns  *)
(* its state behind one Mutex held for the whole crawl: client is that     *)
(* state, the crawl's position, and calls, the list of what the stubs were *)
(* asked and what they answered.  The WorkerCrawler then runs the steps of *)
(* Spec on the CrawlerState, with stubs that answer its k-th call as they  *)
(* answered the SequentialCrawler's.  A persister stub is a store that     *)
(* starts with the same rows and answers Ok(total_inserted) or Err.        *)
(***************************************************************************)
\* SequentialCrawler::new: SequentialCrawlerState::default().
IdleSequential ==
    [op |-> "crawl", pc |-> "start", requests_priority_queue |-> << >>,
     requests_pushed |-> {}, total_fetcher_calls |-> 0,
     total_persisted_repositories |-> 0, total_collisions_repositories |-> 0,
     rows |-> {}, calls |-> << >>, result |-> "none"]

SequentialInit ==
    /\ requests_priority_queue = << >>
    /\ requests_pushed = {}
    /\ total_repositories_target = 0
    /\ total_fetcher_calls = 0
    /\ total_persisted_repositories = 0
    /\ total_collisions_repositories = 0
    /\ rows \in InitialRows
    /\ config \in {c \in Configs : c.mode = "worker" /\ c.fetcher = "stub"}
    /\ supervisor = IdleSupervisor
    /\ worker = [i \in Workers |->
                    IF i = 1 THEN [IdleWorker EXCEPT !.pc = "start"] ELSE IdleWorker]
    /\ ghost = [NoHistory EXCEPT !.initial = rows]
    /\ client = [IdleSequential EXCEPT !.rows = rows]

\* PostgresSqlPersister::persist on a store that commits every row: the rows
\* after it and the total_inserted it returns.
RECURSIVE persist(_, _)
persist(table, data) ==
    IF data = << >> THEN [rows |-> table, total_inserted |-> 0]
    ELSE LET rest == persist(upsert_rows(table, Head(data)), Tail(data))
         IN  [rows |-> rest.rows,
              total_inserted |-> upsert_count(table, Head(data)) + rest.total_inserted]

\* One call of the fetcher stub, and of the persister stub when the fetcher
\* answered Some: persisted is "no_call", "ok" or "err".
StubCall(request, outcome, persisted) ==
    [request |-> request, outcome |-> outcome, persisted |-> persisted]

\* SequentialCrawler::crawl up to its loop: the refusal of empty seeds, then
\* state.push_requests(requests).
SequentialCrawlBegin ==
    /\ client.pc = "start"
    /\ client' =
          IF no_requests_provided(config.seeds)
          THEN [client EXCEPT !.pc = "returned", !.result = "no_requests"]
          ELSE LET pushed == push_requests(client.requests_pushed,
                                           client.requests_priority_queue, config.seeds)
               IN  [client EXCEPT !.pc = "loop",
                                  !.requests_pushed = pushed.pushed,
                                  !.requests_priority_queue = pushed.queue]
    /\ UNCHANGED << stateVars, rows, config, supervisor, worker, ghost >>

\* One turn of while let Some(request) = state.pop_request(): the call is
\* counted, the fetcher answers; an Err returns through the ?; Some is
\* processed (persist, the two counters), the next requests are pushed and
\* the loop breaks when the target is reached; otherwise, and after None,
\* the request is pushed again.  persist fails on a row: it cannot fail on
\* an empty batch.
SequentialTurn(outcome, committed) ==
    /\ client.pc = "loop"
    /\ client.requests_priority_queue # << >>
    /\ (outcome.kind # "some" \/ outcome.batch = << >>) => committed
    /\ LET request == heap_pop_item(client.requests_priority_queue)
           popped == [client EXCEPT
                        !.requests_priority_queue = heap_pop_rest(@),
                        !.total_fetcher_calls = @ + 1]
           stored == persist(client.rows, outcome.batch)
           total_persisted == client.total_persisted_repositories + stored.total_inserted
           next == push_requests(popped.requests_pushed, popped.requests_priority_queue,
                                 outcome.next)
           again == push_requests(next.pushed, next.queue, << request >>)
           same == push_requests(popped.requests_pushed, popped.requests_priority_queue,
                                 << request >>)
       IN  client' =
             CASE outcome.kind = "err" ->
                    [popped EXCEPT !.pc = "returned", !.result = "fetch_failed",
                        !.calls = Append(@, StubCall(request, outcome, "no_call"))]
               [] outcome.kind = "none" ->
                    [popped EXCEPT !.requests_pushed = same.pushed,
                        !.requests_priority_queue = same.queue,
                        !.calls = Append(@, StubCall(request, outcome, "no_call"))]
               [] outcome.kind = "some" /\ ~committed ->
                    [popped EXCEPT !.pc = "returned", !.result = "persist_failed",
                        !.calls = Append(@, StubCall(request, outcome, "err"))]
               [] outcome.kind = "some" /\ committed ->
                    [popped EXCEPT
                        !.rows = stored.rows,
                        !.total_persisted_repositories = total_persisted,
                        !.total_collisions_repositories =
                            @ + collisions_of(Len(outcome.batch), stored.total_inserted),
                        !.pc = IF total_persisted >= config.target
                               THEN "after_loop" ELSE "loop",
                        !.requests_pushed = IF total_persisted >= config.target
                                            THEN next.pushed ELSE again.pushed,
                        !.requests_priority_queue =
                            IF total_persisted >= config.target
                            THEN next.queue ELSE again.queue,
                        !.calls = Append(@, StubCall(request, outcome, "ok"))]
    /\ UNCHANGED << stateVars, rows, config, supervisor, worker, ghost >>

\* After the loop, left by the break or by an empty queue: Err(Not enough
\* repositories crawled) below the target, else Ok(()).
SequentialEnd ==
    /\ \/ client.pc = "after_loop"
       \/ client.pc = "loop" /\ client.requests_priority_queue = << >>
    /\ client' = [client EXCEPT
          !.pc = "returned",
          !.result = IF client.total_persisted_repositories < config.target
                     THEN "not_enough" ELSE "done"]
    /\ UNCHANGED << stateVars, rows, config, supervisor, worker, ghost >>

\* The fetcher stub's answer to the WorkerCrawler's k-th call: what it
\* answered to the SequentialCrawler's k-th call when that was for the same
\* request, anything otherwise.
StubFetches(k, request, outcome) ==
    (k \in 1 .. Len(client.calls) /\ client.calls[k].request = request) =>
        outcome = client.calls[k].outcome

\* The persister stub's answer after the k-th fetch: Err when it answered Err
\* to the SequentialCrawler, else Ok.
StubPersists(k, committed) ==
    committed = ~(k \in 1 .. Len(client.calls) /\ client.calls[k].persisted = "err")

\* WorkerCrawler::crawl with the same stubs, once the SequentialCrawler has
\* returned.
WorkerTwinStep ==
    /\ client.pc = "returned"
    /\ \/ CrawlBegin(1)
       \/ PushRequestDedup(1)
       \/ PushRequestQueue(1)
       \/ HasCompletedCounters(1)
       \/ HasCompletedQueue(1)
       \/ PopRequest(1)
       \/ CountFetcherCall(1)
       \/ \E outcome \in FetchOutcomes :
             /\ StubFetches(total_fetcher_calls, worker[1].request, outcome)
             /\ InnerFetch(1, outcome)
       \/ \E committed \in BOOLEAN :
             /\ StubPersists(total_fetcher_calls, committed)
             /\ PersistRepository(1, committed)
       \/ CountPersisted(1)
       \/ CountCollisions(1)

SequentialNext ==
    \/ SequentialCrawlBegin
    \/ \E outcome \in FetchOutcomes, committed \in BOOLEAN : SequentialTurn(outcome, committed)
    \/ SequentialEnd
    \/ WorkerTwinStep

SequentialSpec == SequentialInit /\ [][SequentialNext]_vars

(***************************************************************************)
(* Claims settled on StateSpec.                                            *)
(***************************************************************************)

\* C5: on a quiescent state has_completed answers done iff
\* total_persisted >= target; otherwise failed iff the queue is empty and
\* requests_pushed is not; otherwise notDone -- so notDone when nothing was
\* ever pushed, and notDone when the queue is non-empty, below the target.
C5_HasCompletedVerdict ==
    client.op = "has_completed" =>
        LET enough == total_persisted_repositories >= total_repositories_target
            drained == requests_priority_queue = << >> /\ requests_pushed # {}
        IN  /\ (client.result = "done") <=> enough
            /\ (client.result = "failed") <=> (~enough /\ drained)
            /\ (client.result = "notDone") <=> (~enough /\ ~drained)
            /\ (~enough /\ requests_pushed = {}) => client.result = "notDone"
            /\ (~enough /\ requests_priority_queue # << >>) => client.result = "notDone"

\* C5's case: has_completed answered failed after a push and a pop, and
\* (C5_WitnessNothingPushed) answered notDone below the target with nothing pushed.
C5_Witness ==
    /\ client.op = "has_completed"
    /\ client.result = "failed"
    /\ requests_pushed # {}
    /\ total_persisted_repositories > 0

C5_WitnessNothingPushed ==
    /\ client.op = "has_completed"
    /\ client.result = "notDone"
    /\ requests_pushed = {}
    /\ total_persisted_repositories < total_repositories_target

Reverse(o) == IF o = "Less" THEN "Greater" ELSE IF o = "Greater" THEN "Less" ELSE "Equal"

\* C6: Request's cmp is a total order consistent with equality: on the
\* requests pushed so far it is reflexive (cmp(a, a) is Equal), antisymmetric
\* (cmp(a, b) is the reverse of cmp(b, a)), Equal only on equal requests, and
\* transitive.
C6_CmpIsTotalOrder ==
    \A a, b, c \in requests_pushed :
        /\ cmp(a, a) = "Equal"
        /\ cmp(a, b) = Reverse(cmp(b, a))
        /\ (cmp(a, b) = "Equal") <=> (a = b)
        /\ (cmp(a, b) = "Greater" /\ cmp(b, c) = "Greater") => cmp(a, c) = "Greater"

\* C7: when pop_request returns a while b is still queued, a > b in Request's
\* order and not b > a.
C7_PopsGreatestFirst ==
    (client.op = "pop_request" /\ client.result = "some") =>
        \A b \in Elements(requests_priority_queue) :
            /\ cmp(client.request, b) = "Greater"
            /\ cmp(b, client.request) # "Greater"

\* The part of C7 the code keeps: what pop_request returns has the greatest
\* (after, variant weight, first) of the queue, so a request with a cursor leaves
\* before any without, and at equal cursor a RepositoriesFromOrganization
\* before a SearchOrganization.
KeyCmp(a, b) ==
    then_with(OptCmp(get_after(a), get_after(b)),
      then_with(IntCmp(get_variant_weight(a), get_variant_weight(b)),
        IntCmp(get_first(a), get_first(b))))

PopsGreatestKeyFirst ==
    (client.op = "pop_request" /\ client.result = "some") =>
        \A b \in Elements(requests_priority_queue) : KeyCmp(client.request, b) # "Less"

(***************************************************************************)
(* Claims settled on Spec and FairSpec.                                    *)
(***************************************************************************)
Started(i) == worker[i].pc # "idle"

Succeeded(i) == worker[i].pc = "returned" /\ worker[i].cause = "done"

\* The run is over: every crawl that was started has returned, and the
\* supervisor, if any, too.
RunEnded ==
    /\ \A i \in Workers : worker[i].pc \in {"idle", "returned"}
    /\ \E i \in Workers : worker[i].pc = "returned"
    /\ supervisor.pc \in {"idle", "ok", "err"}

\* The keys the crawl added to the table.
NewKeys == {Key(x) : x \in rows} \ {Key(x) : x \in ghost.initial}

\* C1: no request is popped twice over the run, so no two workers hold the
\* same request in progress and the worker loop fetches no request twice.
C1_NoRequestPoppedTwice ==
    /\ \A r \in CrawlRequests : ghost.pops[r] <= 1 /\ ghost.fetches[r] <= 1
    /\ \A i, j \in Workers :
          (i # j /\ worker[i].request # NoRequest) => worker[i].request # worker[j].request

\* C1's case: the three requests were each popped, the seed has been requeued
\* and two workers each hold one of the other two.
C1_Witness ==
    /\ \A r \in CrawlRequests : ghost.pops[r] = 1
    /\ \A i \in Workers : worker[i].request \in {Detail, Continuation}

\* C2: a worker's crawl returns the "Not enough repositories persisted"
\* verdict of its loop-top has_completed only from a state where the queue is
\* empty, no worker holds a popped request still being fetched, persisted or
\* expanded, and no push_request stands between its insert into
\* requests_pushed and its push onto the queue.
Stuck ==
    /\ requests_priority_queue = << >>
    /\ \A j \in Workers : worker[j].request = NoRequest /\ worker[j].pc # "push_queue"

C2_FailedOnlyWhenStuck ==
    [][ \A i \in Workers :
          ( /\ worker[i].pc # "returned"
            /\ worker'[i].pc = "returned"
            /\ worker'[i].cause = "not_enough" ) => Stuck ]_vars

\* C3: whenever a WorkerCrawler::crawl or a ParallelCrawler::crawl has returned
\* success, total_persisted >= target.
C3_SuccessMeansTargetReached ==
    /\ \A i \in Workers :
          Succeeded(i) => total_persisted_repositories >= config.target
    /\ supervisor.pc = "ok" => total_persisted_repositories >= config.target

\* The part of C3 the code keeps: a WorkerCrawler::crawl that returned success,
\* and a ParallelCrawler::crawl over at least one of them.
SuccessOfAWorkerMeansTargetReached ==
    /\ \A i \in Workers :
          Succeeded(i) => total_persisted_repositories >= config.target
    /\ (supervisor.pc = "ok" /\ config.crawlers >= 1) =>
          total_persisted_repositories >= config.target

\* C4: when FetcherRetrier::fetch stops at its has_completed gate (the crawl
\* done, or failed), it returns Ok(None): the worker's crawl goes on to its
\* requeue and does not return an error there.
C4_GateStopReturnsEmpty ==
    [][ \A i \in Workers :
          worker[i].pc \in {"gate", "gate_queue"} => worker'[i].pc # "returned" ]_vars

\* C8: at the end of the run total_collisions + total_persisted is the number
\* of Repository values handed to the persister, over all batches.
C8_CountersCoverEveryBatch ==
    RunEnded =>
        total_collisions_repositories + total_persisted_repositories = ghost.handed

\* C8 as amended: at the end of the run total_collisions + total_persisted is
\* the number of Repository values in the batches whose persist call returned
\* Ok; a batch whose persist call failed is counted in neither.
C8_CountersCoverEverySettledBatch ==
    RunEnded =>
        total_collisions_repositories + total_persisted_repositories = ghost.settled

\* C8's case: the run ended after a batch was settled, with a collision, and
\* another batch's persist call failed.
C8_Witness ==
    /\ RunEnded
    /\ ghost.settled > 0
    /\ ghost.handed > ghost.settled
    /\ total_collisions_repositories > 0

C9_WitnessUndercount ==
    /\ RunEnded
    /\ 0 < total_persisted_repositories
    /\ total_persisted_repositories < Cardinality(NewKeys)

\* C10: under fair scheduling every WorkerCrawler::crawl that was started
\* eventually returns, with success or with an error: from some point on
\* every worker that was started has returned (no step takes a started
\* worker back to "idle", and "returned" is final), so none loops forever.
C10_EveryCrawlReturns ==
    <>[](\A i \in Workers : Started(i) => worker[i].pc = "returned")

\* C10's case: two workers, one of which found the queue empty at its pop
\* (pop_request returned None), and both returned.
C10_Witness ==
    /\ config.crawlers = 2
    /\ \A i \in Workers : worker[i].pc = "returned"
    /\ \E i \in Workers : worker[i].cause = "not_enough"
    /\ \E i \in Workers : worker[i].cause = "done"

\* C11: total_persisted, total_fetcher_calls and total_collisions never
\* decrease: no step of any worker, retrier or persister lowers any of them.
C11_CountersNeverDecrease ==
    [][ /\ total_persisted_repositories' >= total_persisted_repositories
        /\ total_fetcher_calls' >= total_fetcher_calls
        /\ total_collisions_repositories' >= total_collisions_repositories ]_vars

\* C11's case: the three counters have each been incremented, the fetcher
\* calls more than once.
C11_Witness ==
    /\ total_persisted_repositories > 0
    /\ total_fetcher_calls > 1
    /\ total_collisions_repositories > 0

(***************************************************************************)
(* Claims settled on RetrierSpec.                                          *)
(***************************************************************************)
\* fetch has returned what its loop body decided (not stopped by has_completed:
\* the crawl stayed notDone at every turn of the loop).
FetchReturnedFromInner ==
    client.op = "fetch" /\ client.pc = "returned" /\ ~ghost.gated

PersistReturned == client.op = "persist" /\ client.pc = "returned"

\* The attempts a retrier built with max_retries makes before giving up.
AttemptsAllowed == IF client.max_retries = 0 THEN 1 ELSE client.max_retries

\* The i-th sleep as the claims state it, and as the code caps it.
SleepAsStated(i) == [base |-> client.base_delay, shift |-> i]

SleepCapped(i) ==
    [base |-> client.base_delay, shift |-> IF i < BackoffCap THEN i ELSE BackoffCap]

\* C12: while the crawl stays notDone, a fetch whose inner fetcher failed K
\* times and then succeeded, K < max_retries, called it K + 1 times and
\* returns its result unchanged; a fetch whose inner fetcher kept failing
\* called it exactly max_retries times and returns an error.
C12_FetchRetriesUpToMaxRetries ==
    FetchReturnedFromInner =>
        /\ (ghost.inner.kind # "err" /\ ghost.failures < client.max_retries) =>
              /\ ghost.calls = ghost.failures + 1
              /\ client.result = [kind |-> "ok", value |-> ghost.inner]
        /\ ghost.inner.kind = "err" =>
              /\ ghost.calls = client.max_retries
              /\ client.result.kind = "failed_after"

\* C12 as amended: the same with max(max_retries, 1) attempts: a retrier built
\* with max_retries = 0 still calls the inner fetcher once.
C12_FetchRetriesUpToAttemptsAllowed ==
    FetchReturnedFromInner =>
        /\ ghost.inner.kind # "err" =>
              /\ ghost.failures < AttemptsAllowed
              /\ ghost.calls = ghost.failures + 1
              /\ client.result = [kind |-> "ok", value |-> ghost.inner]
        /\ ghost.inner.kind = "err" =>
              /\ ghost.calls = AttemptsAllowed
              /\ ghost.failures = AttemptsAllowed
              /\ client.result = [kind |-> "failed_after", attempts |-> AttemptsAllowed]

\* C12's case: max_retries = 3, two failures, then the inner fetcher answered
\* Ok(None), which fetch returned.
C12_Witness ==
    /\ FetchReturnedFromInner
    /\ client.max_retries = 3
    /\ ghost.failures = 2
    /\ ghost.calls = 3
    /\ client.result = [kind |-> "ok", value |-> [kind |-> "none", batch |-> << >>, next |-> << >>]]

\* C13: in fetch the i-th sleep lasts base_delay * 2^i; after K failures and a
\* success there were exactly K sleeps, none before the first attempt and
\* none after the last.
C13_FetchSleepsDouble ==
    client.op = "fetch" =>
        /\ \A i \in 1 .. Len(ghost.sleeps) : ghost.sleeps[i] = SleepAsStated(i)
        /\ ghost.calls = 0 => ghost.sleeps = << >>
        /\ FetchReturnedFromInner => Len(ghost.sleeps) = ghost.calls - 1
        /\ (FetchReturnedFromInner /\ ghost.inner.kind # "err") =>
              Len(ghost.sleeps) = ghost.failures

\* C13 as amended: the i-th sleep lasts base_delay * 2^min(i, 31).
C13_FetchSleepsDoubleUpToCap ==
    client.op = "fetch" =>
        /\ \A i \in 1 .. Len(ghost.sleeps) : ghost.sleeps[i] = SleepCapped(i)
        /\ ghost.calls = 0 => ghost.sleeps = << >>
        /\ FetchReturnedFromInner => Len(ghost.sleeps) = ghost.calls - 1
        /\ (FetchReturnedFromInner /\ ghost.inner.kind # "err") =>
              Len(ghost.sleeps) = ghost.failures

\* C13's case: fetch returned a success after 32 failures and 32 sleeps, the
\* last at the cap.
C13_Witness ==
    /\ FetchReturnedFromInner
    /\ ghost.inner.kind = "some"
    /\ ghost.failures = BackoffCap + 1
    /\ Len(ghost.sleeps) = BackoffCap + 1

\* C14: persist never consults has_completed: in any state of the crawl it
\* calls the inner persister until the first success, whose count it
\* returns, or until max_retries failures in a row, then an error; between
\* attempts it sleeps base_delay * 2^attempt.
C14_PersistRetriesWithoutGate ==
    client.op = "persist" =>
        /\ client.pc \notin {"gate", "gate_queue"} /\ ~ghost.gated
        /\ \A i \in 1 .. Len(ghost.sleeps) : ghost.sleeps[i] = SleepAsStated(i)
        /\ PersistReturned =>
              /\ Len(ghost.sleeps) = ghost.calls - 1
              /\ ghost.inner.kind = "ok" =>
                    /\ ghost.calls = ghost.failures + 1
                    /\ client.result = [kind |-> "ok", value |-> ghost.inner]
              /\ ghost.inner.kind = "err" =>
                    /\ ghost.calls = client.max_retries
                    /\ client.result.kind = "failed_after"

\* C14 as amended: max(max_retries, 1) attempts, and sleeps of
\* base_delay * 2^min(attempt, 31).
C14_PersistRetriesWithoutGateUpToCap ==
    client.op = "persist" =>
        /\ client.pc \notin {"gate", "gate_queue"} /\ ~ghost.gated
        /\ \A i \in 1 .. Len(ghost.sleeps) : ghost.sleeps[i] = SleepCapped(i)
        /\ PersistReturned =>
              /\ Len(ghost.sleeps) = ghost.calls - 1
              /\ ghost.inner.kind = "ok" =>
                    /\ ghost.failures < AttemptsAllowed
                    /\ ghost.calls = ghost.failures + 1
                    /\ client.result = [kind |-> "ok", value |-> ghost.inner]
              /\ ghost.inner.kind = "err" =>
                    /\ ghost.calls = AttemptsAllowed
                    /\ ghost.failures = AttemptsAllowed
                    /\ client.result = [kind |-> "failed_after", attempts |-> AttemptsAllowed]

\* C14's case: the crawl had failed (queue empty, below the target) before the
\* first attempt's retry, and persist went on: two failures, two sleeps, then
\* the inner count returned.
C14_Witness ==
    /\ PersistReturned
    /\ HasCompletedNow = "failed"
    /\ ghost.failures = 2
    /\ Len(ghost.sleeps) = 2
    /\ client.result = [kind |-> "ok", value |-> [kind |-> "ok", count |-> 1]]

(***************************************************************************)
(* Claims settled on EnforcerSpec.                                         *)
(***************************************************************************)
EnforcerReturned == client.op = "fetch" /\ client.pc = "returned"

\* The inner fetcher gave a response with remaining <= 0 and a reset_at instant.
InnerExceeded ==
    /\ client.inner.kind = "some"
    /\ client.inner.rate_limit.remaining <= 0
    /\ client.inner.rate_limit.reset_at.valid

\* C15: when the inner fetcher returned a response with remaining <= 0, fetch
\* sleeps max(0, reset_at - now) once, has not returned before the reset_at
\* instant, and returns that same response and next requests.
C15_ExceededWaitsForReset ==
    LET reset_at == client.inner.rate_limit.reset_at.at
    IN  /\ (client.op = "fetch" /\ client.pc = "sleeping" /\ InnerExceeded) =>
              ghost.sleeps = << IF reset_at > ghost.read_at
                                THEN reset_at - ghost.read_at ELSE 0 >>
        /\ (EnforcerReturned /\ InnerExceeded) =>
              /\ ghost.now >= reset_at
              /\ Len(ghost.sleeps) = 1
              /\ client.result = [kind |-> "ok", value |-> client.inner]

\* C15's case: called at 0 with remaining 0 and reset_at 2, the clock read at
\* 1, fetch slept 1 and returned the response at 2.
C15_Witness ==
    /\ EnforcerReturned
    /\ InnerExceeded
    /\ client.inner.rate_limit = FetcherRateLimit(0, Rfc3339(2))
    /\ ghost.read_at = 1
    /\ ghost.sleeps = << 1 >>
    /\ ghost.now = 2

\* C16: when the inner result is an error, empty, or a response with
\* remaining > 0, fetch returns it unchanged and has not slept.
C16_NotExceededPassesThrough ==
    (EnforcerReturned /\ ~(client.inner.kind = "some" /\ client.inner.rate_limit.remaining <= 0)) =>
        /\ ghost.sleeps = << >>
        /\ client.inner.kind = "err" => client.result = [kind |-> "err", error |-> client.inner]
        /\ client.inner.kind # "err" => client.result = [kind |-> "ok", value |-> client.inner]

\* C16's case: a response with remaining 1 whose reset_at lies ahead was
\* returned at the instant of the call.
C16_Witness ==
    /\ EnforcerReturned
    /\ client.inner.kind = "some"
    /\ client.inner.rate_limit = FetcherRateLimit(1, Rfc3339(MaxClock))
    /\ ghost.now = ghost.called_at
    /\ ghost.now < MaxClock


(***************************************************************************)
(* Claims on how a crawl ends, settled on Spec.                            *)
(***************************************************************************)
\* A worker's crawl returned the error of its empty-seeds check.
RefusedForNoSeeds(i) == worker[i].pc = "returned" /\ worker[i].cause = "no_requests"

\* C17: WorkerCrawler::crawl called with no seeds returns an error and leaves
\* the shared state as it found it: the target is not set, nothing is pushed,
\* no counter moves, and neither the fetcher nor the persister is called.
C17_EmptySeedsTouchNothing ==
    (\E i \in Workers : RefusedForNoSeeds(i)) =>
        /\ total_repositories_target = 0
        /\ requests_priority_queue = << >>
        /\ requests_pushed = {}
        /\ total_fetcher_calls = 0
        /\ total_persisted_repositories = 0
        /\ total_collisions_repositories = 0
        /\ \A r \in CrawlRequests : ghost.pops[r] = 0 /\ ghost.fetches[r] = 0
        /\ ghost.handed = 0
        /\ rows = ghost.initial

\* A crawl asked for two repositories, over a table that already holds a
\* row, was refused for its empty seeds.
C17_Witness ==
    /\ RefusedForNoSeeds(1)
    /\ config.seeds = << >>
    /\ config.target = MaxTarget
    /\ rows # {}

\* A worker's crawl returned the error of its fetcher or of its persister.
FailedInCall(i) ==
    /\ worker[i].pc = "returned"
    /\ worker[i].cause \in {"fetch_failed", "not_enough_in_fetch", "persist_failed"}

\* C18: when the fetcher or the persister returns an error, crawl returns it
\* and does nothing more; the loop turn that failed has counted nothing in
\* total_persisted or total_collisions and has called push_request for none
\* of the response's next requests.
C18_ErrorEndsTheCrawl ==
    /\ [](\A i \in Workers : FailedInCall(i) => ghost.effects[i] = 0)
    /\ [][\A i \in Workers : FailedInCall(i) =>
              /\ worker'[i] = worker[i]
              /\ ghost'.effects[i] = ghost.effects[i]]_vars

\* A persister that was handed a two-repository batch
\* committed the first row, then failed for good, and the crawl returned.
C18_Witness ==
    /\ worker[1].pc = "returned"
    /\ worker[1].cause = "persist_failed"
    /\ ghost.handed = 2
    /\ Cardinality(rows) > Cardinality(ghost.initial)
    /\ total_persisted_repositories = 0

\* One WorkerCrawler alone on the CrawlerState, as in its tests.
SingleWorker == config.mode = "worker"

\* The crawl returned has_completed's error, from the loop top or through
\* the retrier's gate.
RanDry(i) ==
    /\ worker[i].pc = "returned"
    /\ worker[i].cause \in {"not_enough", "not_enough_in_fetch"}

\* The queue ran dry below the target: the fetcher produced no new request.
DryBelowTarget ==
    /\ requests_priority_queue = << >>
    /\ requests_pushed # {}
    /\ total_persisted_repositories < total_repositories_target

\* C19: a single worker whose queue runs dry below the target returns an
\* error and neither succeeds nor waits on the empty queue; the error names
\* the target and total_persisted as they are then, and by then the worker
\* has called fetch exactly once for every request that was enqueued.
C19_DryQueueBelowTargetIsAnError ==
    /\ [](SingleWorker =>
            /\ ~(worker[1].pc = "pop" /\ requests_priority_queue = << >>)
            /\ DryBelowTarget => ~Succeeded(1)
            /\ RanDry(1) =>
                 /\ DryBelowTarget
                 /\ worker[1].expected = total_repositories_target
                 /\ worker[1].persisted = total_persisted_repositories
                 /\ \A r \in requests_pushed : ghost.fetches[r] = 1)
    /\ [][SingleWorker /\ DryBelowTarget
            /\ worker[1].pc \in {"has_completed_queue", "gate_queue"}
          => RanDry(1)']_vars

\* The seed's response held one new repository and one next request, whose
\* response held nothing new: the crawl for two repositories ran dry at one.
C19_Witness ==
    /\ SingleWorker
    /\ worker[1].pc = "returned"
    /\ worker[1].cause = "not_enough"
    /\ worker[1].expected = 2
    /\ worker[1].persisted = 1
    /\ requests_pushed = {Seed, Detail}
    /\ ghost.fetches[Seed] = 1
    /\ ghost.fetches[Detail] = 1

\* The children ParallelCrawler spawns.
Children == 1 .. config.crawlers

\* A child's crawl returned an error.
Failed(i) == worker[i].pc = "returned" /\ worker[i].cause # "done"

C20_WitnessOk ==
    /\ config.mode = "parallel"
    /\ config.crawlers = 2
    /\ Succeeded(1)
    /\ Succeeded(2)
    /\ supervisor.pc = "ok"

(***************************************************************************)
(* Claims settled on ParallelSpec.                                         *)
(***************************************************************************)
\* ParallelCrawler::crawl has returned.
ParallelReturned == supervisor.pc \in {"ok", "err"}

\* Child i's crawl was spawned.
Spawned(i) == worker[i].pc # "idle"

\* C21: when several children fail, the error crawl returns is the error of
\* the child that failed first in time, wherever it stands in the list.
C21_FirstFailureInTimeIsReturned ==
    (supervisor.pc = "err" /\ supervisor.i # 0) => supervisor.i = Head(ghost.failed)

\* What the join loop returns: the error of the first failed child in list
\* order, every handle before it having returned Ok.
C21_FirstFailureInListIsReturned ==
    (supervisor.pc = "err" /\ supervisor.i # 0) =>
        /\ ~child_succeeded(worker[supervisor.i].cause)
        /\ \A j \in 1 .. supervisor.i - 1 :
              worker[j].pc = "returned" /\ child_succeeded(worker[j].cause)

\* The second child failed first, the first child failed after it, and
\* crawl returned the first child's error.
C21_Witness ==
    /\ supervisor.pc = "err"
    /\ supervisor.i = 1
    /\ Len(ghost.failed) >= 2
    /\ Head(ghost.failed) = 2

\* C22: crawl does not return, with Ok or with Err, while a child it
\* spawned is still running.
C22_ReturnsAfterEveryChild ==
    ParallelReturned => \A i \in Crawlers : worker[i].pc # "running"

\* What holds: crawl returns Ok only after every child has returned.
C22_ReturnsOkAfterEveryChild ==
    supervisor.pc = "ok" => \A i \in Crawlers : worker[i].pc # "running"

\* crawl returned the first child's error while the last child was running.
C22_Witness ==
    /\ supervisor.pc = "err"
    /\ supervisor.i = 1
    /\ config.crawlers = MaxCrawlers
    /\ worker[MaxCrawlers].pc = "running"

\* C23: the children are spawned in list order, each once, with a copy of
\* the seeds and the same target; child i+1 is spawned no earlier than
\* delay_between_crawlers after child i, and nothing is slept before the
\* first child.
C23_StaggeredStart ==
    /\ \A i \in Crawlers :
          /\ worker[i].calls = IF Spawned(i) THEN 1 ELSE 0
          /\ Spawned(i) =>
                /\ i <= config.crawlers
                /\ worker[i].requests = config.seeds
                /\ worker[i].total_repositories = config.target
                /\ \A j \in 1 .. i - 1 :
                      /\ Spawned(j)
                      /\ ghost.spawned_at[j] + (i - j) * config.delay
                            <= ghost.spawned_at[i]
    /\ ~Spawned(1) => ghost.sleeps = << >>
    /\ Len(ghost.sleeps) <= Cardinality({i \in Crawlers : Spawned(i)})
    /\ \A k \in 1 .. Len(ghost.sleeps) : ghost.sleeps[k] = config.delay
    /\ (supervisor.pc = "ok" /\ config.crawlers > 0) =>
          /\ \A i \in 1 .. config.crawlers : Spawned(i)
          /\ Len(ghost.sleeps) = config.crawlers - 1
          /\ ghost.called_at + (config.crawlers - 1) * config.delay <= ghost.now

\* Three children, one second apart: the crawl returned Ok two seconds or
\* more after it was called.
C23_Witness ==
    /\ supervisor.pc = "ok"
    /\ config.crawlers = MaxCrawlers
    /\ config.delay = DelayBetweenCrawlers
    /\ ghost.spawned_at[1] = ghost.called_at
    /\ ghost.spawned_at[MaxCrawlers] >=
          ghost.called_at + (MaxCrawlers - 1) * DelayBetweenCrawlers

\* C24: called with no seeds, crawl returns an error, spawns no child and
\* does not sleep.
C24_NoSeedsNoChild ==
    (config.seeds = << >> /\ supervisor.pc # "start") =>
        /\ supervisor.pc = "err"
        /\ supervisor.i = 0
        /\ \A i \in Crawlers : ~Spawned(i) /\ worker[i].calls = 0
        /\ ghost.sleeps = << >>
        /\ ghost.failed = << >>

\* A ParallelCrawler over three children returned the error of its
\* empty-requests check.
C24_Witness ==
    /\ config.seeds = << >>
    /\ config.crawlers = MaxCrawlers
    /\ supervisor.pc = "err"
    /\ ghost.now > ghost.called_at

(***************************************************************************)
(* Claims settled on GraphQlSpec.                                          *)
(***************************************************************************)
\* fetch returned for a request of the given variant.
FetchReturnedFor(variant) == client.pc = "returned" /\ client.request.variant = variant

\* The positions of the edges that are not null, and the rank of such a
\* position among them.
NonNullEdges(edges) == {p \in 1 .. Len(edges) : edges[p].some}

EdgeRank(edges, p) == Cardinality({q \in NonNullEdges(edges) : q <= p})

\* C25: for a SearchOrganization request answered with at least one edge,
\* fetch returns a Response without repositories and, as next requests, one
\* RepositoriesFromOrganization (the owner's login, the request's first, no
\* cursor) per edge that is not null, in edge order, then the continuation
\* (same query and first, after = endCursor) exactly when hasNextPage; an
\* empty edges list gives Ok(None).
C25_SearchPageBecomesOwnerRequests ==
    (FetchReturnedFor("SearchOrganization") /\ client.reply.ok) =>
        LET request == client.request
            data == client.reply.data
            kept == NonNullEdges(data.edges)
            n == Cardinality(kept)
            next == client.result.next_requests
        IN  IF data.edges = << >> THEN client.result = FetchNone
            ELSE /\ client.result.kind = "some"
                 /\ client.result.response.repositories = << >>
                 /\ Len(next) = n + (IF data.hasNextPage THEN 1 ELSE 0)
                 /\ \A p \in kept :
                       next[EdgeRank(data.edges, p)] =
                          RepositoriesFromOrganization(data.edges[p].node.login,
                                                       request.first, None)
                 /\ data.hasNextPage =>
                       next[n + 1] = SearchOrganization(request.name, request.first,
                                                        data.endCursor)

\* A search page of three edges, the second null, the other two of different
\* owners, with a next page.
C25_Witness ==
    /\ FetchReturnedFor("SearchOrganization")
    /\ client.reply.ok
    /\ Len(client.reply.data.edges) = 3
    /\ NonNullEdges(client.reply.data.edges) = {1, 3}
    /\ client.reply.data.edges[1].node.login # client.reply.data.edges[3].node.login
    /\ client.reply.data.hasNextPage
    /\ Len(client.result.next_requests) = 3

\* C26: for a RepositoriesFromOrganization request answered with at least
\* one edge, fetch returns one Repository per edge that is not null, in edge
\* order (the node's name and stars, under the request's organization), and
\* as next requests the continuation alone (same organization and first,
\* after = endCursor) when hasNextPage, nothing otherwise; an empty edges
\* list gives Ok(None).
C26_OrganizationPageBecomesRepositories ==
    (FetchReturnedFor("RepositoriesFromOrganization") /\ client.reply.ok) =>
        LET request == client.request
            data == client.reply.data
            kept == NonNullEdges(data.edges)
            repositories == client.result.response.repositories
        IN  IF data.edges = << >> THEN client.result = FetchNone
            ELSE /\ client.result.kind = "some"
                 /\ Len(repositories) = Cardinality(kept)
                 /\ \A p \in kept :
                       LET repository == repositories[EdgeRank(data.edges, p)]
                       IN  /\ repository.repository_name = data.edges[p].node.name
                           /\ repository.organization_name = request.name
                           /\ repository.total_stars = data.edges[p].node.stargazerCount
                 /\ client.result.next_requests =
                       IF data.hasNextPage
                       THEN << RepositoriesFromOrganization(request.name, request.first,
                                                            data.endCursor) >>
                       ELSE << >>

\* An organization page of three edges, the first null, the other two of
\* different names, with a next page.
C26_Witness ==
    /\ FetchReturnedFor("RepositoriesFromOrganization")
    /\ client.reply.ok
    /\ Len(client.reply.data.edges) = 3
    /\ NonNullEdges(client.reply.data.edges) = {2, 3}
    /\ client.reply.data.edges[2].node.name # client.reply.data.edges[3].node.name
    /\ client.reply.data.edges[2].node.login # client.request.name
    /\ client.reply.data.hasNextPage
    /\ Len(client.result.response.repositories) = 2

\* The GraphQLError is one of a response that did not parse.
ParseFailure(message) == contains(message, ParseMarker)

\* C27: a parse failure gives Ok(None) for a SearchOrganization request and
\* an error for a RepositoriesFromOrganization request; any other failure of
\* the query gives an error for both.
C27_ParseFailureDegradesSearchOnly ==
    (client.pc = "returned" /\ ~client.reply.ok) =>
        IF ParseFailure(client.reply.message)
              /\ client.request.variant = "SearchOrganization"
        THEN client.result = FetchNone
        ELSE /\ client.result.kind = "err"
             /\ client.result.error.message = client.reply.message

\* A search whose response did not parse returned Ok(None).
C27_Witness ==
    /\ FetchReturnedFor("SearchOrganization")
    /\ ~client.reply.ok
    /\ client.reply.message = ParseMarker
    /\ client.result = FetchNone

(***************************************************************************)
(* Claims settled on ProcessSpec.                                          *)
(***************************************************************************)
\* The batch's keys are distinct and none was in the table before.
FreshDistinctBatch ==
    /\ Cardinality({Key(client.batch[k]) : k \in 1 .. Len(client.batch)}) = Len(client.batch)
    /\ \A k \in 1 .. Len(client.batch) :
          Key(client.batch[k]) \notin {Key(x) : x \in ghost.initial}

\* Both calls of process_response returned Ok.
ProcessedTwice == Len(ghost.added) = 2 /\ client.pc = "idle"

\* What the claim says of the two calls.
CountedOnceThenCollided ==
    /\ ghost.added[1].persisted = Len(client.batch)
    /\ ghost.added[1].collisions = 0
    /\ ghost.added[2].persisted = 0
    /\ ghost.added[2].collisions = Len(client.batch)

C28_RetriedProcessingUndercounts ==
    (ProcessedTwice /\ FreshDistinctBatch) =>
        /\ ghost.added[1].persisted + ghost.added[1].collisions = Len(client.batch)
        /\ ghost.added[2].persisted = 0
        /\ ghost.added[2].collisions = Len(client.batch)

Occurrences(queue, request) == Cardinality({k \in 1 .. Len(queue) : queue[k] = request})

\* push_requests(rs) was called right after push_requests(rs), none of rs
\* having been pushed before the first call.
PushedTwice == client.op = "push_requests" /\ client.repeated

\* C29: push_requests(rs) called twice in a row, for requests none of which
\* was pushed before, leaves a queue that holds each distinct request of rs
\* exactly once, also when rs repeats a request, and the second call changes
\* neither the queue nor requests_pushed.
C29_PushRequestsTwiceIsOnce ==
    PushedTwice =>
        /\ ~client.changed
        /\ \A request \in Elements(client.requests) :
              /\ Occurrences(requests_priority_queue, request) = 1
              /\ request \in requests_pushed

\* The list holds one request twice and another between them, and was
\* pushed twice onto a queue that held a third request.
C29_Witness ==
    /\ PushedTwice
    /\ Len(client.requests) = 3
    /\ client.requests[1] = client.requests[3]
    /\ client.requests[1] # client.requests[2]
    /\ Len(requests_priority_queue) = 3

(***************************************************************************)
(* A claim on the retrier's gate, settled on Spec.                         *)
(***************************************************************************)
\* Worker i is in the first turn of FetcherRetrier::fetch's loop, its
\* has_completed having read total_persisted below the target: the request
\* it popped has not reached the inner fetcher yet.
AtFirstGateBelowTarget(i) ==
    /\ config.fetcher = "retrier"
    /\ worker[i].pc = "gate_queue"
    /\ worker[i].attempts = 0
    /\ worker[i].persisted < worker[i].expected

\* C30: behind a FetcherRetrier on the worker's own CrawlerState, every
\* request popped below the target is passed to the inner fetcher at least
\* once: the first turn of the retrier's loop goes on to the inner fetcher.
C30_PoppedRequestReachesInnerFetcher ==
    [][\A i \in Workers :
          AtFirstGateBelowTarget(i) => worker'[i].pc \in {"gate_queue", "inner_fetch"}]_vars

\* The single worker popped its only seed and its crawl returned the gate's
\* error, the inner fetcher never called: nothing was handed to the persister.
C30_SeedNeverFetched ==
    /\ SingleWorker
    /\ config.seeds = << Seed >>
    /\ config.target >= 1
    /\ worker[1].pc = "returned"
    /\ worker[1].cause = "not_enough_in_fetch"
    /\ ghost.pops[Seed] = 1
    /\ ghost.handed = 0
    /\ total_fetcher_calls = 1

(***************************************************************************)
(* Claims on what happens once the target is reached, settled on Spec and  *)
(* LateSpec.                                                               *)
(***************************************************************************)
\* Worker i's crawl returns in this step.
Returns(i) == worker[i].pc # "returned" /\ worker'[i].pc = "returned"

\* The target is reached: what has_completed answers done for.
TargetReached == total_persisted_repositories >= total_repositories_target

\* C31: once a has_completed call has returned done, every later call returns
\* done; so no worker returns the "Not enough repositories persisted" error
\* after another worker has returned success.
C31_NoFailureAfterSuccess ==
    [][(\E j \in Workers : Succeeded(j)) =>
          \A i \in Workers :
             Returns(i) => worker'[i].cause \notin {"not_enough", "not_enough_in_fetch"}]_vars

\* What holds: a has_completed call that starts once a worker has returned
\* success reads the counters at or above the target and answers done.
C31_CallsStartedAfterSuccessAnswerDone ==
    [][(\E j \in Workers : Succeeded(j)) =>
          \A i \in Workers :
             (worker[i].pc \in {"has_completed", "gate"} /\ worker'[i] # worker[i]) =>
                 worker'[i].pc \notin {"has_completed_queue", "gate_queue"}]_vars

\* One worker returned success and the other, after it, the error.
C31_FailureAfterSuccess ==
    /\ Succeeded(1)
    /\ worker[2].pc = "returned"
    /\ worker[2].cause = "not_enough"
    /\ worker[2].persisted < worker[2].expected
    /\ total_persisted_repositories >= total_repositories_target

\* C32 as stated: after total_persisted >= target first holds, each worker
\* pops at most one further request and then returns success (a worker in
\* its loop, that is, not one refused for its empty seeds).
C32_OneMorePopThenSuccess ==
    /\ [](\A i \in Workers : ghost.late_pops[i] <= 1)
    /\ [][TargetReached =>
             \A i \in Workers :
                (Returns(i) /\ worker[i].pc # "start") => worker'[i].cause = "done"]_vars

\* C32, what holds: once the target is reached each worker pops at most one
\* further request, and a has_completed call a worker starts at its loop top
\* from then on makes it return success.
C32_OneMorePopThenStopAtLoopTop ==
    /\ [](\A i \in Workers : ghost.late_pops[i] <= 1)
    /\ [][TargetReached =>
             \A i \in Workers :
                (worker[i].pc = "has_completed" /\ worker'[i] # worker[i]) =>
                    worker'[i] = Returned("done")]_vars

\* A worker that popped a request after the target was reached and has
\* returned success at its next loop top.
C32_Witness ==
    \E i \in Workers : ghost.late_pops[i] = 1 /\ Succeeded(i)

\* A worker that popped a request after the target was reached and returned
\* the error of that request's fetch.
C32_LatePopThenError ==
    \E i \in Workers :
        /\ ghost.late_pops[i] = 1
        /\ worker[i].pc = "returned"
        /\ worker[i].cause \in {"fetch_failed", "persist_failed", "not_enough_in_fetch"}

(***************************************************************************)
(* Claims on the retrier once the target is reached, settled on            *)
(* RetrierSpec.                                                            *)
(***************************************************************************)
\* C33: once total_persisted >= target, a FetcherRetrier::fetch call starts at
\* most one more inner fetch call, and a retrier that sleeps in its backoff
\* (or has just woken up to ask has_completed) goes from the sleep to
\* has_completed and from there returns Ok(None), with no further inner call.
C33_AtMostOneInnerCallAfterDone ==
    /\ [](ghost.late <= 1)
    /\ [][(TargetReached /\ client.op = "fetch" /\ client' # client) =>
             /\ client.pc = "sleep" => (client'.pc = "gate" /\ ghost'.calls = ghost.calls)
             /\ client.pc = "gate" =>
                   /\ client'.pc = "returned"
                   /\ client'.result = [kind |-> "ok", value |-> [kind |-> "none"]]
                   /\ ghost'.calls = ghost.calls]_vars

\* A fetch that failed once, was asleep when the target was reached and
\* returned Ok(None) after that one inner call.
C33_Witness ==
    /\ client.op = "fetch" /\ client.pc = "returned"
    /\ client.result = [kind |-> "ok", value |-> [kind |-> "none"]]
    /\ ghost.calls = 1 /\ ghost.failures = 1 /\ Len(ghost.sleeps) = 1
    /\ ghost.late = 0
    /\ TargetReached

\* A fetch whose has_completed read the counters before the target was reached
\* and that started its one more inner call after it.
C33_OneLateCall ==
    client.op = "fetch" /\ ghost.late = 1 /\ ghost.calls >= 1

(***************************************************************************)
(* Claims on the locks of CrawlerState, settled on LockFairSpec.           *)
(***************************************************************************)
\* The lock a waiting task waits for.
Awaited(t) == Head(worker[t].todo).lock

\* A task asleep, or between two operations, holds no lock.
SleepersHoldNothing ==
    \A t \in Tasks :
        (worker[t].todo = << >> \/ Head(worker[t].todo).do = "sleep") => Held(t) = {}

\* Every operation a task has started comes to its end.
OperationsComplete ==
    \A t \in Tasks : (worker[t].todo # << >>) ~> (worker[t].todo = << >>)

\* C34 as stated: a sleeping worker holds no lock, no operation holds a lock
\* while it waits for one a writer holds, and every operation completes.
C34_NoLockHeldWhileWaitingForAWriter ==
    /\ []SleepersHoldNothing
    /\ [](\A t \in Tasks :
            (worker[t].waiting /\ client[Awaited(t)].mode = "write") => Held(t) = {})
    /\ OperationsComplete

\* C34, what holds: a sleeping worker holds no lock; a task that holds a
\* write guard holds nothing else and waits for nothing; the only task that
\* waits while it holds locks is in state_summary and holds read guards; and
\* every operation completes.
C34_WritersHoldOneLockAndNeverWait ==
    /\ []SleepersHoldNothing
    /\ [](\A t \in Tasks :
            /\ (\E lock \in Held(t) : client[lock].mode = "write") =>
                  (Cardinality(Held(t)) = 1 /\ ~worker[t].waiting)
            /\ (worker[t].waiting /\ Held(t) # {}) => worker[t].op = "state_summary")
    /\ OperationsComplete

\* state_summary holding its four read guards while it waits for the queue,
\* which pop_request has locked for writing.
C34_Witness ==
    \E t \in Tasks, u \in Tasks :
        /\ worker[t].op = "state_summary" /\ worker[t].waiting
        /\ Awaited(t) = "requests_priority_queue"
        /\ Cardinality(Held(t)) = 4
        /\ worker[u].op = "pop_request"
        /\ client["requests_priority_queue"].mode = "write"
        /\ client["requests_priority_queue"].holders = {u}

(***************************************************************************)
(* Claims on the queue and on requests_pushed during the crawl, settled    *)
(* on Spec.                                                                *)
(***************************************************************************)
\* C35: the push_request(request) that ends a loop turn changes neither the
\* queue nor requests_pushed, whether the fetch answered None or Some, and
\* no request is popped (hence fetched) twice.
C35_RequeueIsNoOp ==
    /\ [](\A request \in CrawlRequests :
             ghost.pops[request] <= 1 /\ ghost.fetches[request] <= 1)
    /\ [][\A i \in Workers :
            (worker[i].pc = "push" /\ worker[i].phase = "requeue" /\ worker'[i] # worker[i]) =>
                /\ requests_priority_queue' = requests_priority_queue
                /\ requests_pushed' = requests_pushed
                /\ worker'[i] = LoopTop]_vars

\* One worker popped the seed, its fetch answered None, the request was pushed
\* back and the worker is at its loop top again: the queue is still empty.
C35_Witness ==
    /\ SingleWorker
    /\ config.seeds = << Seed >>
    /\ worker[1] = LoopTop
    /\ ghost.pops[Seed] = 1 /\ ghost.fetches[Seed] = 1
    /\ ghost.handed = 0
    /\ requests_priority_queue = << >>
    /\ requests_pushed = {Seed}

\* C36: every request in the queue is in requests_pushed, the queue holds no
\* request twice, and requests_pushed only grows.
C36_QueueWithinPushedNoDuplicate ==
    /\ [](\A k \in 1 .. Len(requests_priority_queue) :
             /\ requests_priority_queue[k] \in requests_pushed
             /\ \A l \in 1 .. Len(requests_priority_queue) :
                   requests_priority_queue[k] = requests_priority_queue[l] => k = l)
    /\ [][requests_pushed \subseteq requests_pushed']_vars

\* Two requests queued while a third, popped before, is only in requests_pushed.
C36_Witness ==
    /\ Len(requests_priority_queue) = 2
    /\ Cardinality(requests_pushed) = 3
    /\ \E request \in requests_pushed : ghost.pops[request] = 1

\* The successful pops of all workers so far, and the workers that have
\* popped a request and not yet counted its fetcher call.
SuccessfulPops == ghost.pops[Seed] + ghost.pops[Detail] + ghost.pops[Continuation]
PoppedNotCounted == {i \in Workers : worker[i].pc = "count_call"}

\* A pop_request that answers None: the worker is at its loop top again, no
\* counter has moved and no fetch is counted.
EmptyPopDoesNothing ==
    [][\A i \in Workers :
         (worker[i].pc = "pop" /\ requests_priority_queue = << >> /\ worker'[i] # worker[i]) =>
             /\ worker'[i] = LoopTop
             /\ UNCHANGED << stateVars, rows >>
             /\ ghost'.fetches = ghost.fetches /\ ghost'.pops = ghost.pops]_vars

\* C37 as stated: in every reachable state total_fetcher_calls is at least
\* the number of successful pops, and an empty pop increments nothing and
\* triggers no fetch.
C37_CallsAtLeastPops ==
    /\ [](total_fetcher_calls >= SuccessfulPops)
    /\ EmptyPopDoesNothing

\* C37, what holds: total_fetcher_calls is the number of successful pops
\* less the workers that have popped and not yet incremented it, so never
\* more than the pops and equal to them whenever no worker is in between.
C37_CallsFollowPops ==
    /\ [](total_fetcher_calls = SuccessfulPops - Cardinality(PoppedNotCounted))
    /\ EmptyPopDoesNothing

\* Two requests have been popped and the worker that popped the second has
\* not counted its fetcher call yet.
C37_Witness ==
    /\ Cardinality(PoppedNotCounted) = 1
    /\ SuccessfulPops = 2
    /\ total_fetcher_calls = 1

(***************************************************************************)
(* Claim on the upsert, settled on ProcessSpec.                            *)
(***************************************************************************)
\* C38: after persist_repository has committed a repository whose key was
\* stored with other total_stars, the stored row has the new total_stars, and
\* the row adds 0 to the count persist returns.
C38_UpsertStoresNewStars ==
    [][(client.pc = "persist" /\ client.row < Len(client.batch)
          /\ client'.row = client.row + 1) =>
            LET repository == client.batch[client.row + 1]
            IN  (\E stored \in rows : /\ Key(stored) = Key(repository)
                                      /\ stored.total_stars # repository.total_stars) =>
                    /\ repository \in rows'
                    /\ client'.inserted = client.inserted]_vars

\* repository-1 was stored with 5 stars; persist_repository has committed it
\* with 10 stars, counted 0, and the table still holds it with 5 stars.
C38_StarsNotUpdated ==
    /\ ghost.initial = {Repository("repository-1", "org-1", 5)}
    /\ client.pc = "persist" /\ client.call = 1 /\ client.tries = 0
    /\ client.row = 1 /\ client.inserted = 0
    /\ client.batch[1].total_stars = 10
    /\ Key(client.batch[1]) = << "repository-1", "org-1" >>
    /\ rows = {Repository("repository-1", "org-1", 5)}

(***************************************************************************)
(* Claim on the two crawlers, settled on SequentialSpec.                   *)
(***************************************************************************)
\* The calls the WorkerCrawler has made so far are the first calls of the
\* SequentialCrawler: the same request to the fetcher, and a persist call of
\* the same batch exactly after the fetches that answered Some.
SameCallsSoFar ==
    LET k == total_fetcher_calls
    IN  /\ k <= Len(client.calls)
        /\ worker[1].pc \in {"inner_fetch", "persist", "count_collisions"} =>
              /\ k >= 1
              /\ client.calls[k].request = worker[1].request
        /\ worker[1].pc = "persist" =>
              /\ client.calls[k].persisted # "no_call"
              /\ client.calls[k].outcome.batch = worker[1].batch

\* Both crawls have returned the same outcome after as many calls, with equal
\* counters and equal stores.
SameEnd ==
    /\ worker[1].cause = client.result
    /\ total_fetcher_calls = Len(client.calls)
    /\ total_fetcher_calls = client.total_fetcher_calls
    /\ total_persisted_repositories = client.total_persisted_repositories
    /\ total_collisions_repositories = client.total_collisions_repositories
    /\ rows = client.rows

\* C39: with the same stubs, the same non-empty seeds and a target >= 1, a
\* fresh SequentialCrawler and a fresh WorkerCrawler make the same fetch and
\* persist calls in the same order and return the same outcome, with equal
\* total_persisted, total_collisions and total_fetcher_calls.
C39_SequentialAndWorkerAgree ==
    (config.seeds # << >> /\ config.target >= 1 /\ client.pc = "returned") =>
        /\ SameCallsSoFar
        /\ worker[1].pc = "returned" => SameEnd

\* Both crawlers have fetched the seed and then a second request, persisted
\* two batches, counted a collision and returned success.
C39_Witness ==
    /\ config.seeds # << >> /\ config.target >= 1
    /\ client.pc = "returned" /\ client.result = "done"
    /\ worker[1].pc = "returned" /\ worker[1].cause = "done"
    /\ Len(client.calls) = 2
    /\ total_fetcher_calls = 2
    /\ total_collisions_repositories >= 1
    /\ client.total_collisions_repositories >= 1

\* With a target of 0 the SequentialCrawler fetches the seed and the
\* WorkerCrawler returns at once.
C39_TargetZeroDiffers ==
    /\ config.seeds # << >> /\ config.target = 0
    /\ client.pc = "returned" /\ worker[1].pc = "returned"
    /\ Len(client.calls) = 1
    /\ total_fetcher_calls = 0
====
